---- MODULE Spec2Model ----
(***************************************************************************)
(* Model of the knut journal engine: the balance package (Balance,         *)
(* Accounts, Builder.Build), the ledger Builder, the Sorter and the        *)
(* streaming pipeline stages.                                              *)
(***************************************************************************)
EXTENDS Integers, Sequences, FiniteSets, TLC

VARIABLES
  bal,      \* the Balance operated on
  ret,      \* the last call on the balance: operation, argument, error
  nops,     \* number of calls made so far
  closed,   \* accounts closed successfully and not opened again since
  filter,   \* ledger.Builder: accountFilter and commodityFilter
  received, \* the directives passed to the ledger.Builder so far, in order
  steps,    \* ledger.Builder.steps: map from date to Step
  phase,    \* "adding", then "built" (ledger.Builder.Build), then "done"
  days,     \* the Ledger returned by ledger.Builder.Build
  trace,    \* balance.Builder.Build: the processor calls made, in order
  ast,      \* Sorter.AST.Days: map from date to Day
  emitted,  \* the directives a Sorter or printer has passed on, in order
  variant,  \* the pipeline: "ProcessStream" or "Process2" stages
  Diff,     \* Differ.Diff
  cancelled,\* the shared context is done
  source,   \* the source stage: pc and index of the next day
  valuator, \* Valuator stage: pc, day in hand, running values
  differ,   \* Differ stage: pc, day in hand, prev
  chans,    \* contents of the buffered result channels
  closedCh, \* the channels that have been closed
  hist,     \* dates received by each stage and by the consumer; errors received
  heap,     \* the maps allocated so far: address -> contents
  objs,     \* the Balance structs allocated so far: *Balance -> addresses of its maps
  snapshots,\* the copies made so far, in order: the slice handed to Diffs
  ghost,    \* origin of each copy, copies not written since, arguments of Diffs
  Valuation,\* Valuator.Valuation: the valuation commodity, or nil
  valst,    \* the Valuator: address of values, amounts, normalized, date, flags, status
  up,       \* the stages before the Valuator: date, rate, amounts, elements to deliver
  sink,     \* what the Valuator has passed on: days or elements, errors
  stage,    \* one pipeline stage with its channels, its upstream and its consumers
  loader,   \* JournalSource.Load and Source: the parser's channels, errs, the journal
  runner,   \* runner.execute: the stages' errors, the fan-in, the report, the outcome
  expander, \* the expanding and filtering stages: transactions by address, output
  builder,  \* balance.Builder: Diff, Last and the slice Build returns
  printer,  \* the Printer and the text it has written, parsed again
  parser,   \* the parser of parser_test.go: its input and position, the result
  diffing   \* the Differ's goroutine: the days and their Values maps by address

balVars == <<bal, ret, nops, closed>>

ledgerVars == <<filter, received, steps, phase, days, trace>>

sorterVars == <<ast, emitted>>

streamVars ==
  <<variant, Diff, cancelled, source, valuator, differ, chans, closedCh, hist>>

heapVars == <<heap, objs, snapshots, ghost>>

valVars == <<Valuation, valst, up, sink>>

textVars == <<printer, parser, diffing>>

pipeVars == <<stage, loader, runner, expander, builder, printer, parser, diffing>>

vars ==
  <<bal, ret, nops, closed, filter, received, steps, phase, days, trace, ast, emitted,
    variant, Diff, cancelled, source, valuator, differ, chans, closedCh, hist,
    heap, objs, snapshots, ghost, Valuation, valst, up, sink,
    stage, loader, runner, expander, builder, printer, parser, diffing>>

(***************************************************************************)
(* Registry: interned accounts and commodities.                            *)
(***************************************************************************)
Cash == "Assets:Cash"
Food == "Expenses:Food"
Capital == "Equity:Capital"

Account == {Cash, Food, Capital}

Commodity == {"USD", "CHF"}

EQUITY == "Equity"

\* Account.Type(): the first segment of the colon-separated name.
Type(a) ==
  CASE a = Cash -> "Assets"
    [] a = Food -> "Expenses"
    [] a = Capital -> EQUITY

Nil == "nil"

(***************************************************************************)
(* Go maps with decimal values: a missing key reads as zero.               *)
(***************************************************************************)
EmptyMap == << >>

Get(m, k) == IF k \in DOMAIN m THEN m[k] ELSE 0

Put(m, k, v) == [x \in (DOMAIN m) \cup {k} |-> IF x = k THEN v ELSE m[x]]

\* CommodityAccount represents a position.
CommodityAccount(a, c) == [Account |-> a, Commodity |-> c]

Positions == {CommodityAccount(a, c) : a \in Account, c \in Commodity}

Posting(cr, dr, c, amt, val) ==
  [Credit |-> cr, Debit |-> dr, Commodity |-> c, Amount |-> amt, Value |-> val]

(***************************************************************************)
(* balance.Accounts: the set of open accounts.                             *)
(***************************************************************************)
\* Variant: opening is idempotent and never fails.
AccountsOpenIdempotent(oa, a) == [oa |-> oa \cup {a}, err |-> Nil]

AccountsOpen(oa, a) ==
  IF a \in oa
    THEN [oa |-> oa, err |-> "already open"]
    ELSE [oa |-> oa \cup {a}, err |-> Nil]

\* Variant: the account stays in the open set.
AccountsCloseKeeps(oa, a) ==
  IF a \notin oa
    THEN [oa |-> oa, err |-> "already closed"]
    ELSE [oa |-> oa, err |-> Nil]

AccountsClose(oa, a) ==
  IF a \notin oa
    THEN [oa |-> oa, err |-> "already closed"]
    ELSE [oa |-> oa \ {a}, err |-> Nil]

\* Variant: no exemption for Equity accounts.
IsOpenNoEquity(oa, a) == a \in oa

IsOpen(oa, a) ==
  IF a \in oa THEN TRUE ELSE Type(a) = EQUITY

\* No Balance has been allocated.
NoGhost == [origin |-> << >>, fresh |-> {}, orig |-> << >>]

HeapIdle ==
  /\ heap = << >>
  /\ objs = << >>
  /\ snapshots = << >>
  /\ ghost = NoGhost

\* No Valuator has been set up.
ValuatorIdle ==
  /\ Valuation = Nil
  /\ valst = [status |-> "none"]
  /\ up = [date |-> 0]
  /\ sink = [out |-> << >>, errs |-> << >>]

\* No stage has been started.
StageIdle == stage = [pc |-> "none"]

\* No journal is being loaded.
LoaderIdle == loader = [pc |-> "none"]

\* No command is running.
RunnerIdle == runner = [pc |-> "none"]

\* No transaction is being expanded or filtered.
ExpanderIdle == expander = [pc |-> "none"]

\* No Builder.Build is returning.
BuilderIdle == builder = [pc |-> "none"]

\* Nothing is printed or parsed.
TextIdle ==
  /\ printer = [pc |-> "none"]
  /\ parser = [pc |-> "none"]
  /\ diffing = [pc |-> "none"]

PipeIdle ==
  /\ StageIdle
  /\ LoaderIdle
  /\ RunnerIdle
  /\ ExpanderIdle
  /\ BuilderIdle
  /\ TextIdle

(***************************************************************************)
(* balance.Balance                                                         *)
(***************************************************************************)
New == [Amounts |-> EmptyMap, Values |-> EmptyMap, Accounts |-> {}]

\* Variant: the debit side is never booked.
BookPostingAmountCreditOnly(amounts, posting) ==
  LET crPos == CommodityAccount(posting.Credit, posting.Commodity)
  IN  Put(amounts, crPos, Get(amounts, crPos) - posting.Amount)

\* Variant: credit and debit side exchanged.
BookPostingAmountSwapped(amounts, posting) ==
  LET crPos == CommodityAccount(posting.Credit, posting.Commodity)
      drPos == CommodityAccount(posting.Debit, posting.Commodity)
      a1 == Put(amounts, drPos, Get(amounts, drPos) - posting.Amount)
  IN  Put(a1, crPos, Get(a1, crPos) + posting.Amount)

\* One iteration of the loop of bookAmount, for an open posting.
BookPostingAmount(amounts, posting) ==
  LET crPos == CommodityAccount(posting.Credit, posting.Commodity)
      drPos == CommodityAccount(posting.Debit, posting.Commodity)
      a1 == Put(amounts, crPos, Get(amounts, crPos) - posting.Amount)
  IN  Put(a1, drPos, Get(a1, drPos) + posting.Amount)

\* Variant: nothing is booked unless every posting can be.
RECURSIVE bookAmountFromAtomic(_, _, _)
bookAmountFromAtomic(b, postings, i) ==
  IF \E j \in i..Len(postings) :
       ~IsOpen(b.Accounts, postings[j].Credit) \/ ~IsOpen(b.Accounts, postings[j].Debit)
    THEN [b |-> b, err |-> "account is not open"]
  ELSE IF i > Len(postings) THEN [b |-> b, err |-> Nil]
  ELSE bookAmountFromAtomic([b EXCEPT !.Amounts = BookPostingAmount(@, postings[i])],
                            postings, i + 1)

RECURSIVE bookAmountFrom(_, _, _)
bookAmountFrom(b, postings, i) ==
  IF i > Len(postings) THEN [b |-> b, err |-> Nil]
  ELSE IF ~IsOpen(b.Accounts, postings[i].Credit)
    THEN [b |-> b, err |-> "credit account is not open"]
  ELSE IF ~IsOpen(b.Accounts, postings[i].Debit)
    THEN [b |-> b, err |-> "debit account is not open"]
  ELSE bookAmountFrom([b EXCEPT !.Amounts = BookPostingAmount(@, postings[i])],
                      postings, i + 1)

bookAmount(b, t) == bookAmountFrom(b, t.Postings, 1)

BookPostingValue(values, posting) ==
  LET crPos == CommodityAccount(posting.Credit, posting.Commodity)
      drPos == CommodityAccount(posting.Debit, posting.Commodity)
      v1 == Put(values, crPos, Get(values, crPos) - posting.Value)
  IN  Put(v1, drPos, Get(v1, drPos) + posting.Value)

RECURSIVE bookValueFrom(_, _, _)
bookValueFrom(b, postings, i) ==
  IF i > Len(postings) THEN [b |-> b, err |-> Nil]
  ELSE bookValueFrom([b EXCEPT !.Values = BookPostingValue(@, postings[i])],
                     postings, i + 1)

bookValue(b, t) == bookValueFrom(b, t.Postings, 1)

(***************************************************************************)
(* ledger.Builder: collects directives into one Step per date.             *)
(***************************************************************************)
Dates == {1, 2}

Step(d) ==
  [Date |-> d, Prices |-> << >>, Openings |-> << >>, Transactions |-> << >>,
   Values |-> << >>, Assertions |-> << >>, Closings |-> << >>]

OpenDirective(d, a) == [kind |-> "Open", Date |-> d, Account |-> a]

CloseDirective(d, a) == [kind |-> "Close", Date |-> d, Account |-> a]

PriceDirective(d, c, p, tgt) ==
  [kind |-> "Price", Date |-> d, Commodity |-> c, Price |-> p, Target |-> tgt]

TransactionDirective(d, postings) ==
  [kind |-> "Transaction", Date |-> d, Postings |-> postings]

AssertionDirective(d, a, c, amt) ==
  [kind |-> "Assertion", Date |-> d, Account |-> a, Commodity |-> c, Amount |-> amt]

ValueDirective(d, a, c, amt) ==
  [kind |-> "Value", Date |-> d, Account |-> a, Commodity |-> c, Amount |-> amt]

\* regexp.MatchString: a filter is modelled by the set of names it matches.
MatchString(re, name) == name \in re

\* The filters a Builder is created with: none (the empty regexp matches
\* every name), or accounts matching "Cash" and commodities matching "USD".
FilterOptions ==
  {[Accounts |-> Account, Commodities |-> Commodity],
   [Accounts |-> {Cash}, Commodities |-> {"USD"}]}

\* getOrCreate followed by an update of the step.
getOrCreate(st, d) == IF d \in DOMAIN st THEN st[d] ELSE Step(d)

\* Variant: a posting is kept only if both of its accounts match.
RECURSIVE FilterPostingsBothAccounts(_, _, _)
FilterPostingsBothAccounts(f, postings, i) ==
  IF i > Len(postings) THEN << >>
  ELSE LET p == postings[i]
           rest == FilterPostingsBothAccounts(f, postings, i + 1)
       IN  IF /\ (MatchString(f.Accounts, p.Credit) /\ MatchString(f.Accounts, p.Debit))
              /\ MatchString(f.Commodities, p.Commodity)
             THEN <<p>> \o rest
             ELSE rest

RECURSIVE FilterPostings(_, _, _)
FilterPostings(f, postings, i) ==
  IF i > Len(postings) THEN << >>
  ELSE LET p == postings[i]
           rest == FilterPostings(f, postings, i + 1)
       IN  IF /\ (MatchString(f.Accounts, p.Credit) \/ MatchString(f.Accounts, p.Debit))
              /\ MatchString(f.Commodities, p.Commodity)
             THEN <<p>> \o rest
             ELSE rest

AddTransaction(f, st, t) ==
  LET filtered == FilterPostings(f, t.Postings, 1)
  IN  IF Len(filtered) > 0
        THEN LET s == getOrCreate(st, t.Date)
                 t2 == [t EXCEPT !.Postings = filtered]
             IN  Put(st, t.Date, [s EXCEPT !.Transactions = Append(@, t2)])
        ELSE st

AddOpening(f, st, o) ==
  LET s == getOrCreate(st, o.Date)
  IN  Put(st, o.Date, [s EXCEPT !.Openings = Append(@, o)])

AddClosing(f, st, c) ==
  LET s == getOrCreate(st, c.Date)
  IN  Put(st, c.Date, [s EXCEPT !.Closings = Append(@, c)])

AddPrice(f, st, p) ==
  LET s == getOrCreate(st, p.Date)
  IN  Put(st, p.Date, [s EXCEPT !.Prices = Append(@, p)])

AddAssertion(f, st, a) ==
  IF ~MatchString(f.Accounts, a.Account) THEN st
  ELSE IF ~MatchString(f.Commodities, a.Commodity) THEN st
  ELSE LET s == getOrCreate(st, a.Date)
       IN  Put(st, a.Date, [s EXCEPT !.Assertions = Append(@, a)])

AddValue(f, st, a) ==
  IF ~MatchString(f.Accounts, a.Account) THEN st
  ELSE IF ~MatchString(f.Commodities, a.Commodity) THEN st
  ELSE LET s == getOrCreate(st, a.Date)
       IN  Put(st, a.Date, [s EXCEPT !.Values = Append(@, a)])

\* Variant: the steps are returned in descending date order.
RECURSIVE BuildLedgerDescending(_)
BuildLedgerDescending(st) ==
  IF DOMAIN st = {} THEN << >>
  ELSE LET d == CHOOSE x \in DOMAIN st : \A y \in DOMAIN st : y <= x
       IN  <<st[d]>> \o BuildLedgerDescending([x \in (DOMAIN st) \ {d} |-> st[x]])

\* ledger.Builder.Build: the steps of the map, sorted by date.
RECURSIVE BuildLedger(_)
BuildLedger(st) ==
  IF DOMAIN st = {} THEN << >>
  ELSE LET d == CHOOSE x \in DOMAIN st : \A y \in DOMAIN st : x <= y
       IN  <<st[d]>> \o BuildLedger([x \in (DOMAIN st) \ {d} |-> st[x]])

(***************************************************************************)
(* balance.Builder.Build: runs every processor on every step, in order,    *)
(* and stops at the first error.                                           *)
(***************************************************************************)
NoInfo == [expected |-> 0, actual |-> 0]

Ok(b) == [b |-> b, err |-> Nil, info |-> NoInfo]

Fail(b, msg) == [b |-> b, err |-> msg, info |-> NoInfo]

\* AccountOpener: opens the accounts of the step's open directives.
RECURSIVE AccountOpener(_, _, _)
AccountOpener(b, openings, i) ==
  IF i > Len(openings) THEN Ok(b)
  ELSE LET r == AccountsOpen(b.Accounts, openings[i].Account)
       IN  IF r.err # Nil THEN Fail(b, r.err)
           ELSE AccountOpener([b EXCEPT !.Accounts = r.oa], openings, i + 1)

\* TransactionBooker: books the step's transactions into Amounts.
RECURSIVE TransactionBooker(_, _, _)
TransactionBooker(b, transactions, i) ==
  IF i > Len(transactions) THEN Ok(b)
  ELSE LET r == bookAmount(b, transactions[i])
       IN  IF r.err # Nil THEN Fail(r.b, r.err)
           ELSE TransactionBooker(r.b, transactions, i + 1)

\* Asserter: compares the recorded amount with the asserted one.
RECURSIVE Asserter(_, _, _)
Asserter(b, assertions, i) ==
  IF i > Len(assertions) THEN Ok(b)
  ELSE LET a == assertions[i]
           actual == Get(b.Amounts, CommodityAccount(a.Account, a.Commodity))
       IN  IF actual # a.Amount
             THEN [b |-> b, err |-> "assertion failed",
                   info |-> [expected |-> a.Amount, actual |-> actual]]
             ELSE Asserter(b, assertions, i + 1)

\* AccountCloser: an account is closed only with a zero balance in every
\* commodity.
RECURSIVE AccountCloser(_, _, _)
AccountCloser(b, closings, i) ==
  IF i > Len(closings) THEN Ok(b)
  ELSE LET a == closings[i].Account
       IN  IF \E k \in DOMAIN b.Amounts : k.Account = a /\ b.Amounts[k] # 0
             THEN Fail(b, "account has nonzero position")
             ELSE LET r == AccountsClose(b.Accounts, a)
                  IN  IF r.err # Nil THEN Fail(b, r.err)
                      ELSE AccountCloser([b EXCEPT !.Accounts = r.oa], closings, i + 1)

\* Variant: assertions are checked before the day's transactions are booked.
pplAsserterFirst ==
  <<"DateUpdater", "Snapshotter", "PriceUpdater", "AccountOpener", "Asserter",
    "TransactionBooker", "ValueBooker", "TransactionValuator",
    "ValuationTransactionComputer", "AccountCloser">>

\* The processors of Build, in the order in which they run on a step.
ppl ==
  <<"DateUpdater", "Snapshotter", "PriceUpdater", "AccountOpener",
    "TransactionBooker", "ValueBooker", "Asserter", "TransactionValuator",
    "ValuationTransactionComputer", "AccountCloser">>

\* pr.Process(bal, step).  The processors that neither book amounts nor
\* change the open set leave both alone.
Process(pr, b, step) ==
  CASE pr = "AccountOpener" -> AccountOpener(b, step.Openings, 1)
    [] pr = "TransactionBooker" -> TransactionBooker(b, step.Transactions, 1)
    [] pr = "Asserter" -> Asserter(b, step.Assertions, 1)
    [] pr = "AccountCloser" -> AccountCloser(b, step.Closings, 1)
    [] OTHER -> Ok(b)

\* Variant: a failing processor is recorded and the loops go on.
RECURSIVE BuildFromKeepsGoing(_, _, _, _, _)
BuildFromKeepsGoing(l, b, i, j, tr) ==
  IF i > Len(l) THEN [b |-> b, err |-> Nil, info |-> NoInfo, trace |-> tr]
  ELSE IF j > Len(ppl) THEN BuildFromKeepsGoing(l, b, i + 1, 1, tr)
  ELSE LET r == Process(ppl[j], b, l[i])
           tr2 == Append(tr, [Date |-> l[i].Date, pr |-> ppl[j]])
           rest == BuildFromKeepsGoing(l, r.b, i, j + 1, tr2)
       IN  IF r.err # Nil
             THEN [b |-> rest.b, err |-> r.err, info |-> r.info, trace |-> rest.trace]
             ELSE rest

\* The loops of Build over l.Days and ppl, from step i and processor j on.
\* tr collects the processor calls made.
RECURSIVE BuildFrom(_, _, _, _, _)
BuildFrom(l, b, i, j, tr) ==
  IF i > Len(l) THEN [b |-> b, err |-> Nil, info |-> NoInfo, trace |-> tr]
  ELSE IF j > Len(ppl) THEN BuildFrom(l, b, i + 1, 1, tr)
  ELSE LET r == Process(ppl[j], b, l[i])
           tr2 == Append(tr, [Date |-> l[i].Date, pr |-> ppl[j]])
       IN  IF r.err # Nil
             THEN [b |-> r.b, err |-> r.err, info |-> r.info, trace |-> tr2]
             ELSE BuildFrom(l, r.b, i, j + 1, tr2)

Build(l) == BuildFrom(l, New, 1, 1, << >>)

\* Snapshotter with one date per day of the ledger: the balance as it stands
\* when the processor runs on the step, which is before the step is booked.
Snapshots(l) ==
  [i \in 1..Len(l) |-> BuildFrom(SubSeq(l, 1, i - 1), New, 1, 1, << >>).b]

\* What Build returns as its first result: nil with an error, the balances
\* of the Snapshotter otherwise.
BuildResult(l, err) == IF err # Nil THEN << >> ELSE Snapshots(l)

(***************************************************************************)
(* Inputs: postings and transactions.                                      *)
(***************************************************************************)
MaxOps == 3

MaxDirectives == 3

\* Postings between any two accounts: 1 USD valued at 1, or 2 CHF valued at 3.
PostingSet ==
  {Posting(cr, dr, "USD", 1, 1) : cr \in Account, dr \in Account}
    \cup {Posting(cr, dr, "CHF", 2, 3) : cr \in Account, dr \in Account}

FirstPostingSet ==
  {Posting(Capital, Cash, "USD", 1, 1), Posting(Cash, Food, "CHF", 2, 3),
   Posting(Capital, Capital, "USD", 1, 1)}

SecondPostingSet ==
  {Posting(Cash, Food, "USD", 1, 1), Posting(Food, Cash, "CHF", 2, 3),
   Posting(Capital, Cash, "CHF", 2, 3)}

Transaction(postings) == [Postings |-> postings]

TransactionSet ==
  {Transaction(<<p>>) : p \in PostingSet}
    \cup {Transaction(<<p, q>>) : p \in FirstPostingSet, q \in SecondPostingSet}

(***************************************************************************)
(* Calls on one Balance, in any order.                                     *)
(***************************************************************************)
InitBal ==
  /\ bal = New
  /\ ret = [op |-> "New", arg |-> Nil, err |-> Nil]
  /\ nops = 0
  /\ closed = {}
  /\ filter = [Accounts |-> Account, Commodities |-> Commodity]
  /\ received = << >>
  /\ steps = EmptyMap
  /\ phase = "adding"
  /\ days = << >>
  /\ trace = << >>
  /\ ast = EmptyMap
  /\ emitted = << >>
  /\ variant = "ProcessStream"
  /\ Diff = FALSE
  /\ cancelled = FALSE
  /\ source = [pc |-> "push", i |-> 1]
  /\ valuator = [pc |-> "pop", day |-> [Date |-> 0, bad |-> FALSE, Values |-> 0], values |-> 0]
  /\ differ = [pc |-> "pop", day |-> [Date |-> 0, bad |-> FALSE, Values |-> 0],
               res |-> [Date |-> 0, bad |-> FALSE, Values |-> 0], prev |-> 0]
  /\ chans = [vRes |-> << >>, dRes |-> << >>]
  /\ closedCh = {}
  /\ hist = [vIn |-> << >>, dIn |-> << >>, out |-> << >>, errs |-> << >>]
  /\ HeapIdle
  /\ ValuatorIdle
  /\ PipeIdle

Open(a) ==
  /\ nops < MaxOps
  /\ LET r == AccountsOpen(bal.Accounts, a)
     IN  /\ bal' = [bal EXCEPT !.Accounts = r.oa]
         /\ ret' = [op |-> "Open", arg |-> a, err |-> r.err]
         /\ closed' = IF r.err = Nil THEN closed \ {a} ELSE closed
  /\ nops' = nops + 1
  /\ UNCHANGED <<ledgerVars, sorterVars, streamVars, heapVars, valVars, pipeVars>>

Close(a) ==
  /\ nops < MaxOps
  /\ LET r == AccountsClose(bal.Accounts, a)
     IN  /\ bal' = [bal EXCEPT !.Accounts = r.oa]
         /\ ret' = [op |-> "Close", arg |-> a, err |-> r.err]
         /\ closed' = IF r.err = Nil THEN closed \cup {a} ELSE closed
  /\ nops' = nops + 1
  /\ UNCHANGED <<ledgerVars, sorterVars, streamVars, heapVars, valVars, pipeVars>>

\* AccountCloser on a step with the single close directive for account a.
CloseAccount(a) ==
  /\ nops < MaxOps
  /\ LET r == AccountCloser(bal, <<CloseDirective(1, a)>>, 1)
     IN  /\ bal' = r.b
         /\ ret' = [op |-> "AccountCloser", arg |-> a, err |-> r.err]
         /\ closed' = IF r.err = Nil THEN closed \cup {a} ELSE closed
  /\ nops' = nops + 1
  /\ UNCHANGED <<ledgerVars, sorterVars, streamVars, heapVars, valVars, pipeVars>>

BookAmount(t) ==
  /\ nops < MaxOps
  /\ LET r == bookAmount(bal, t)
     IN  /\ bal' = r.b
         /\ ret' = [op |-> "bookAmount", arg |-> t, err |-> r.err]
  /\ nops' = nops + 1
  /\ UNCHANGED <<closed, ledgerVars, sorterVars, streamVars, heapVars, valVars, pipeVars>>

BookValue(t) ==
  /\ nops < MaxOps
  /\ LET r == bookValue(bal, t)
     IN  /\ bal' = r.b
         /\ ret' = [op |-> "bookValue", arg |-> t, err |-> r.err]
  /\ nops' = nops + 1
  /\ UNCHANGED <<closed, ledgerVars, sorterVars, streamVars, heapVars, valVars, pipeVars>>

NextBal ==
  \/ \E a \in Account : Open(a)
  \/ \E a \in Account : Close(a)
  \/ \E a \in Account : CloseAccount(a)
  \/ \E t \in TransactionSet : BookAmount(t)
  \/ \E t \in TransactionSet : BookValue(t)

SpecBal == InitBal /\ [][NextBal]_vars

(***************************************************************************)
(* Properties of the Balance operations.                                   *)
(***************************************************************************)
RECURSIVE SumOver(_, _)
SumOver(m, S) ==
  IF S = {} THEN 0
  ELSE LET k == CHOOSE x \in S : TRUE IN m[k] + SumOver(m, S \ {k})

\* Sum of the entries of map m for commodity c, over all accounts.
CommodityTotal(m, c) == SumOver(m, {k \in DOMAIN m : k.Commodity = c})

\* C1: after any sequence of open, close and booking calls, failed bookings
\* included, the Amounts of every commodity sum to zero over all accounts,
\* and so do the Values.
Conservation ==
  \A c \in Commodity :
    /\ CommodityTotal(bal.Amounts, c) = 0
    /\ CommodityTotal(bal.Values, c) = 0

\* After one Open and one bookValue, a booking of two postings failed at its
\* second posting and left the first one booked.
ConservationWitness ==
  /\ nops = 3
  /\ bal.Accounts = {Cash}
  /\ ret.op = "bookAmount"
  /\ ret.err # Nil
  /\ \E k \in DOMAIN bal.Amounts : bal.Amounts[k] # 0
  /\ \E k \in DOMAIN bal.Values : bal.Values[k] # 0

RECURSIVE NetOf(_, _, _)
\* Debited minus credited quantity of position pos over postings i..Len.
NetOf(postings, pos, i) ==
  IF i > Len(postings) THEN 0
  ELSE LET po == postings[i]
           dr == IF CommodityAccount(po.Debit, po.Commodity) = pos THEN po.Amount ELSE 0
           cr == IF CommodityAccount(po.Credit, po.Commodity) = pos THEN po.Amount ELSE 0
       IN  dr - cr + NetOf(postings, pos, i + 1)

NamedPositions(postings) ==
  {CommodityAccount(postings[i].Credit, postings[i].Commodity) : i \in DOMAIN postings}
    \cup {CommodityAccount(postings[i].Debit, postings[i].Commodity) : i \in DOMAIN postings}

\* C2: a successful bookAmount decreases Amounts[credit, commodity] and
\* increases Amounts[debit, commodity] by the quantity of every posting, and
\* keeps every position that no posting names.
BookAmountEffect ==
  [][(ret'.op = "bookAmount" /\ ret'.err = Nil) =>
       /\ \A pos \in Positions :
            Get(bal'.Amounts, pos)
              = Get(bal.Amounts, pos) + NetOf(ret'.arg.Postings, pos, 1)
       /\ DOMAIN bal'.Amounts
            = DOMAIN bal.Amounts \cup NamedPositions(ret'.arg.Postings)
       /\ bal'.Values = bal.Values
       /\ bal'.Accounts = bal.Accounts]_vars

\* A transaction of two postings through Assets:Cash was booked.
BookAmountEffectWitness ==
  /\ ret.op = "bookAmount"
  /\ ret.err = Nil
  /\ Len(ret.arg.Postings) = 2
  /\ ret.arg.Postings[1].Debit = Cash
  /\ ret.arg.Postings[2].Credit = Cash
  /\ Get(bal.Amounts, CommodityAccount(Food, "USD")) = 1
  /\ Get(bal.Amounts, CommodityAccount(Capital, "USD")) = -1

\* The postings of a transaction with an account that is not open in accounts.
Unbookable(accounts, postings) ==
  {i \in DOMAIN postings :
     ~IsOpen(accounts, postings[i].Credit) \/ ~IsOpen(accounts, postings[i].Debit)}

\* C38: a bookAmount that fails at its k-th posting, the first one with an
\* account that is not open, leaves the postings before k booked and books
\* none from k on.
PartialBookingKept ==
  [][(ret'.op = "bookAmount" /\ Unbookable(bal.Accounts, ret'.arg.Postings) # {}) =>
       LET postings == ret'.arg.Postings
           bad == Unbookable(bal.Accounts, postings)
           k == CHOOSE i \in bad : \A j \in bad : i <= j
           before == SubSeq(postings, 1, k - 1)
       IN  /\ ret'.err # Nil
           /\ \A pos \in Positions :
                Get(bal'.Amounts, pos) = Get(bal.Amounts, pos) + NetOf(before, pos, 1)
           /\ DOMAIN bal'.Amounts = DOMAIN bal.Amounts \cup NamedPositions(before)
           /\ bal'.Values = bal.Values
           /\ bal'.Accounts = bal.Accounts]_vars

\* With only Assets:Cash opened, a transaction from Equity:Capital to
\* Assets:Cash and on to Expenses:Food failed at its second posting: the cash
\* of the first posting is booked, nothing is booked on Expenses:Food.
PartialBookingKeptWitness ==
  /\ nops = 2
  /\ bal.Accounts = {Cash}
  /\ ret.op = "bookAmount"
  /\ ret.err = "debit account is not open"
  /\ ret.arg.Postings = <<Posting(Capital, Cash, "USD", 1, 1), Posting(Cash, Food, "USD", 1, 1)>>
  /\ Get(bal.Amounts, CommodityAccount(Cash, "USD")) = 1
  /\ Get(bal.Amounts, CommodityAccount(Capital, "USD")) = -1
  /\ CommodityAccount(Food, "USD") \notin DOMAIN bal.Amounts

\* C4: booking a transaction fails iff some posting has a credit or debit
\* account that is neither in the open set nor of type Equity.
BookingNeedsOpenAccounts ==
  ret.op = "bookAmount" =>
    (ret.err # Nil <=>
       \E i \in DOMAIN ret.arg.Postings :
          \E a \in {ret.arg.Postings[i].Credit, ret.arg.Postings[i].Debit} :
             a \notin bal.Accounts /\ Type(a) # EQUITY)

\* A posting from the Equity account, which is not in the open set, into the
\* open cash account was booked.
BookingNeedsOpenAccountsWitness ==
  /\ ret.op = "bookAmount"
  /\ ret.err = Nil
  /\ bal.Accounts = {Cash}
  /\ \E i \in DOMAIN ret.arg.Postings :
        ret.arg.Postings[i].Credit = Capital /\ ret.arg.Postings[i].Debit = Cash

\* C5: opening an account of the open set fails and leaves the set alone;
\* opening any other account succeeds and adds exactly that account.
OpenEffect ==
  [][ret'.op = "Open" =>
       IF ret'.arg \in bal.Accounts
         THEN ret'.err # Nil /\ bal'.Accounts = bal.Accounts
         ELSE ret'.err = Nil /\ bal'.Accounts = bal.Accounts \cup {ret'.arg}]_vars

\* An account was opened a second time, which failed.
OpenEffectWitness ==
  /\ ret.op = "Open"
  /\ ret.err # Nil
  /\ ret.arg \in bal.Accounts

\* The accounts named by the postings of transaction t.
AccountsOf(t) ==
  {t.Postings[i].Credit : i \in DOMAIN t.Postings}
    \cup {t.Postings[i].Debit : i \in DOMAIN t.Postings}

ZeroBalance(amounts, a) ==
  \A c \in Commodity : Get(amounts, CommodityAccount(a, c)) = 0

\* The effect of processing one close directive.
CloseStep ==
  ret'.op = "AccountCloser" =>
    /\ ret'.err = Nil =>
         /\ ZeroBalance(bal.Amounts, ret'.arg)
         /\ ret'.arg \in bal.Accounts
         /\ bal'.Accounts = bal.Accounts \ {ret'.arg}
    /\ ~ZeroBalance(bal.Amounts, ret'.arg) => ret'.err # Nil
    /\ ret'.err # Nil => bal'.Accounts = bal.Accounts
    /\ bal'.Amounts = bal.Amounts

\* C6 as stated: a close succeeds only with a zero balance in every
\* commodity, a failed close leaves the open set alone, a successful close
\* removes the account, and every later transaction that uses a closed
\* account fails.
CloseThenUseFails ==
  [][/\ CloseStep
     /\ (ret'.op = "bookAmount" /\ AccountsOf(ret'.arg) \cap closed # {})
          => ret'.err # Nil]_vars

\* C6 amended: as above, but only a later transaction that uses a closed
\* account of a type other than Equity fails.
CloseEffect ==
  [][/\ CloseStep
     /\ (ret'.op = "bookAmount"
           /\ \E a \in AccountsOf(ret'.arg) \cap closed : Type(a) # EQUITY)
          => ret'.err # Nil]_vars

\* The cash account was opened, closed by a close directive, and then used
\* by a transaction, which failed.
CloseEffectWitness ==
  /\ nops = 3
  /\ closed = {Cash}
  /\ bal.Accounts = {}
  /\ ret.op = "bookAmount"
  /\ Cash \in AccountsOf(ret.arg)
  /\ ret.err # Nil

(***************************************************************************)
(* From directives to balances: the directives are added to a              *)
(* ledger.Builder, its Build returns the ledger, balance.Builder.Build     *)
(* processes it.                                                           *)
(***************************************************************************)
TransactionInputs ==
  {<<Posting(Capital, Cash, "USD", 1, 0)>>,
   <<Posting(Capital, Cash, "CHF", 2, 0)>>,
   <<Posting(Cash, Cash, "USD", 1, 0)>>,
   <<Posting(Capital, Capital, "USD", 1, 0)>>,
   <<Posting(Cash, Capital, "USD", 1, 0), Posting(Capital, Cash, "CHF", 2, 0)>>}

DirectiveSet ==
  {OpenDirective(d, a) : d \in Dates, a \in {Cash, Capital}}
    \cup {CloseDirective(d, a) : d \in Dates, a \in {Cash, Capital}}
    \cup {TransactionDirective(d, ps) : d \in Dates, ps \in TransactionInputs}
    \cup {AssertionDirective(d, Cash, "USD", v) : d \in Dates, v \in {0, 1}}
    \cup {PriceDirective(1, "CHF", 2, "USD"), ValueDirective(1, Cash, "USD", 1)}
    \cup {AssertionDirective(2, Capital, "USD", 0), ValueDirective(1, Cash, "CHF", 1)}

Init ==
  /\ bal = New
  /\ ret = [op |-> "New", arg |-> Nil, err |-> Nil]
  /\ nops = 0
  /\ closed = {}
  /\ filter \in FilterOptions
  /\ received = << >>
  /\ steps = EmptyMap
  /\ phase = "adding"
  /\ days = << >>
  /\ trace = << >>
  /\ ast = EmptyMap
  /\ emitted = << >>
  /\ variant = "ProcessStream"
  /\ Diff = FALSE
  /\ cancelled = FALSE
  /\ source = [pc |-> "push", i |-> 1]
  /\ valuator = [pc |-> "pop", day |-> [Date |-> 0, bad |-> FALSE, Values |-> 0], values |-> 0]
  /\ differ = [pc |-> "pop", day |-> [Date |-> 0, bad |-> FALSE, Values |-> 0],
               res |-> [Date |-> 0, bad |-> FALSE, Values |-> 0], prev |-> 0]
  /\ chans = [vRes |-> << >>, dRes |-> << >>]
  /\ closedCh = {}
  /\ hist = [vIn |-> << >>, dIn |-> << >>, out |-> << >>, errs |-> << >>]
  /\ HeapIdle
  /\ ValuatorIdle
  /\ PipeIdle

\* One iteration of the loop of ledger.Builder.Process.
Receive(d) ==
  /\ phase = "adding"
  /\ Len(received) < MaxDirectives
  /\ received' = Append(received, d)
  /\ steps' =
       CASE d.kind = "Open" -> AddOpening(filter, steps, d)
         [] d.kind = "Price" -> AddPrice(filter, steps, d)
         [] d.kind = "Transaction" -> AddTransaction(filter, steps, d)
         [] d.kind = "Assertion" -> AddAssertion(filter, steps, d)
         [] d.kind = "Value" -> AddValue(filter, steps, d)
         [] d.kind = "Close" -> AddClosing(filter, steps, d)
  /\ UNCHANGED <<balVars, filter, phase, days, trace, sorterVars, streamVars, heapVars, valVars, pipeVars>>

\* ledger.Builder.Build
LedgerBuild ==
  /\ phase = "adding"
  /\ days' = BuildLedger(steps)
  /\ phase' = "built"
  /\ UNCHANGED <<balVars, filter, received, steps, trace, sorterVars, streamVars, heapVars, valVars, pipeVars>>

\* balance.Builder.Build
BalanceBuild ==
  /\ phase = "built"
  /\ LET r == Build(days)
     IN  /\ bal' = r.b
         /\ ret' = [op |-> "Build", arg |-> Nil, err |-> r.err, info |-> r.info,
                     result |-> BuildResult(days, r.err)]
         /\ trace' = r.trace
  /\ phase' = "done"
  /\ UNCHANGED <<nops, closed, filter, received, steps, days, sorterVars, streamVars, heapVars, valVars, pipeVars>>

Next ==
  \/ \E d \in DirectiveSet : Receive(d)
  \/ LedgerBuild
  \/ BalanceBuild

Spec == Init /\ [][Next]_vars

(***************************************************************************)
(* Properties of the path from directives to balances.                     *)
(***************************************************************************)
RECURSIVE NetOfTransactions(_, _, _)
\* Debited minus credited quantity of pos over transactions i..Len.
NetOfTransactions(transactions, pos, i) ==
  IF i > Len(transactions) THEN 0
  ELSE NetOf(transactions[i].Postings, pos, 1)
         + NetOfTransactions(transactions, pos, i + 1)

RECURSIVE DirectSum(_, _, _, _)
\* Debited minus credited quantity of pos over all transactions of the
\* steps i..Len of ledger l that are dated d or earlier.
DirectSum(l, pos, d, i) ==
  IF i > Len(l) THEN 0
  ELSE (IF l[i].Date <= d THEN NetOfTransactions(l[i].Transactions, pos, 1) ELSE 0)
         + DirectSum(l, pos, d, i + 1)

LastDate == CHOOSE d \in Dates : \A e \in Dates : e <= d

\* C3: when Build succeeds, the Amounts booked step by step equal, for
\* every position, the sum over the whole ledger of debited minus credited
\* quantities.
BookingEqualsDirectSum ==
  (phase = "done" /\ ret.err = Nil) =>
    \A pos \in Positions :
      Get(bal.Amounts, pos) = DirectSum(days, pos, LastDate, 1)

\* A ledger with transactions on two days was booked, the second one having
\* two postings.
BookingEqualsDirectSumWitness ==
  /\ phase = "done"
  /\ ret.err = Nil
  /\ Len(days) = 2
  /\ Len(days[1].Transactions) = 1
  /\ Len(days[2].Transactions) = 1
  /\ Len(days[2].Transactions[1].Postings) = 2
  /\ Get(bal.Amounts, CommodityAccount(Cash, "CHF")) = 4

\* The Asserter ran on the step dated d and returned no error.
AsserterPassed(d) ==
  \E i \in DOMAIN trace :
    /\ trace[i] = [Date |-> d, pr |-> "Asserter"]
    /\ (i < Len(trace) \/ ret.err = Nil)

\* The Asserter ran on the step dated d and returned an error.
AsserterFailed(d) ==
  /\ Len(trace) > 0
  /\ trace[Len(trace)] = [Date |-> d, pr |-> "Asserter"]
  /\ ret.err # Nil

\* Assertion a of a step dated d agrees with the quantities booked up to
\* and including that day.
AssertionHolds(a, d) ==
  a.Amount = DirectSum(days, CommodityAccount(a.Account, a.Commodity), d, 1)

\* C7: an assertion passes iff the amount recorded for its position after
\* the transactions of its day were booked is the asserted value; otherwise
\* Build fails with an error that carries the expected and the actual value.
AssertionChecksRecordedAmount ==
  phase = "done" =>
    \A i \in DOMAIN days :
      LET day == days[i]
          as == day.Assertions
      IN  /\ AsserterPassed(day.Date) =>
               \A k \in DOMAIN as : AssertionHolds(as[k], day.Date)
          /\ AsserterFailed(day.Date) =>
               /\ ret.err = "assertion failed"
               /\ \E k \in DOMAIN as :
                    /\ \A j \in 1..(k - 1) : AssertionHolds(as[j], day.Date)
                    /\ ~AssertionHolds(as[k], day.Date)
                    /\ ret.info.expected = as[k].Amount
                    /\ ret.info.actual
                         = DirectSum(days, CommodityAccount(as[k].Account, as[k].Commodity),
                                     day.Date, 1)

\* An assertion of 0 USD failed against the 1 USD booked earlier the same day.
AssertionChecksRecordedAmountWitness ==
  /\ phase = "done"
  /\ Len(days) = 1
  /\ Len(days[1].Transactions) = 1
  /\ ret.err = "assertion failed"
  /\ ret.info = [expected |-> 0, actual |-> 1]

\* The postings of t that the builder's filters keep.
KeptPostings(t) ==
  LET Keep(p) ==
        /\ (p.Credit \in filter.Accounts \/ p.Debit \in filter.Accounts)
        /\ p.Commodity \in filter.Commodities
  IN  SelectSeq(t.Postings, Keep)

\* Directive d is added to a step by the builder.
Added(d) ==
  CASE d.kind = "Transaction" -> KeptPostings(d) # << >>
    [] d.kind \in {"Assertion", "Value"} ->
         d.Account \in filter.Accounts /\ d.Commodity \in filter.Commodities
    [] OTHER -> TRUE

\* The directives of kind k and date dt that were added, in the order in
\* which they were received.
AddedOf(k, dt) ==
  LET Sel(d) == d.kind = k /\ d.Date = dt /\ Added(d)
      sel == SelectSeq(received, Sel)
  IN  [i \in 1..Len(sel) |->
         IF k = "Transaction" THEN [sel[i] EXCEPT !.Postings = KeptPostings(sel[i])]
         ELSE sel[i]]

\* C9: the ledger has its days in strictly ascending date order, exactly one
\* day for each date for which a directive was added to the builder, and
\* each day holds exactly the directives added with its date, each kind in
\* the order of addition.  (A directive that the builder's filters reject
\* is not added.)
DaysSortedAndComplete ==
  phase # "adding" =>
    /\ \A i \in 1..(Len(days) - 1) : days[i].Date < days[i + 1].Date
    /\ {days[i].Date : i \in DOMAIN days}
         = {received[i].Date : i \in {j \in DOMAIN received : Added(received[j])}}
    /\ \A i \in DOMAIN days :
         LET day == days[i]
         IN  /\ day.Prices = AddedOf("Price", day.Date)
             /\ day.Openings = AddedOf("Open", day.Date)
             /\ day.Transactions = AddedOf("Transaction", day.Date)
             /\ day.Values = AddedOf("Value", day.Date)
             /\ day.Assertions = AddedOf("Assertion", day.Date)
             /\ day.Closings = AddedOf("Close", day.Date)

\* Two different transactions of the later date were added before a
\* directive of the earlier date.
DaysSortedAndCompleteWitness ==
  /\ phase = "built"
  /\ Len(days) = 2
  /\ Len(received) = 3
  /\ received[1].Date > received[3].Date
  /\ Len(days[2].Transactions) = 2
  /\ days[2].Transactions[1] # days[2].Transactions[2]


\* The directives of kind k and date dt received so far, in order.
ReceivedOf(k, dt) ==
  LET Sel(d) == d.kind = k /\ d.Date = dt
  IN  SelectSeq(received, Sel)

\* The transactions ts with the postings whose commodity and whose credit or
\* debit account the filters match, without those left with no posting.
MatchingTransactions(ts) ==
  LET Kept(p) ==
        /\ p.Commodity \in filter.Commodities
        /\ p.Credit \in filter.Accounts \/ p.Debit \in filter.Accounts
      HasPostings(t) == t.Postings # << >>
  IN  SelectSeq([i \in 1..Len(ts) |->
                   [ts[i] EXCEPT !.Postings = SelectSeq(ts[i].Postings, Kept)]],
                HasPostings)

\* The assertions or values ds whose account and commodity the filters match.
MatchingBoth(ds) ==
  LET Kept(d) == d.Account \in filter.Accounts /\ d.Commodity \in filter.Commodities
  IN  SelectSeq(ds, Kept)

\* C37: the builder holds of each transaction received the postings whose
\* commodity matches and whose credit or debit account matches, and no
\* transaction without such a posting; it holds the assertions and values
\* whose account and commodity both match, and every open, price and close;
\* a date has a step iff one of these is held for it.
FilterKeepsMatching ==
  \A dt \in Dates :
    LET s == IF dt \in DOMAIN steps THEN steps[dt] ELSE Step(dt)
    IN  /\ s.Transactions = MatchingTransactions(ReceivedOf("Transaction", dt))
        /\ s.Assertions = MatchingBoth(ReceivedOf("Assertion", dt))
        /\ s.Values = MatchingBoth(ReceivedOf("Value", dt))
        /\ s.Openings = ReceivedOf("Open", dt)
        /\ s.Prices = ReceivedOf("Price", dt)
        /\ s.Closings = ReceivedOf("Close", dt)
        /\ dt \in DOMAIN steps <=> s # Step(dt)

\* With filters on Cash and USD: a transaction with two postings was added
\* and one of them kept; an assertion on another account and a transaction
\* between other accounts were received on the second date, which has no step.
FilterKeepsMatchingWitness ==
  /\ filter = [Accounts |-> {Cash}, Commodities |-> {"USD"}]
  /\ Len(received) = 3
  /\ received[1] = TransactionDirective(1, <<Posting(Cash, Capital, "USD", 1, 0),
                                            Posting(Capital, Cash, "CHF", 2, 0)>>)
  /\ received[2] = AssertionDirective(2, Capital, "USD", 0)
  /\ received[3] = TransactionDirective(2, <<Posting(Capital, Capital, "USD", 1, 0)>>)
  /\ DOMAIN steps = {1}
  /\ steps[1].Transactions =
       <<TransactionDirective(1, <<Posting(Cash, Capital, "USD", 1, 0)>>)>>

(***************************************************************************)
(* Sorter: collects the directives into an AST and, on Finalize, passes    *)
(* them on day by day.  PrintJournal prints the days of a journal.         *)
(***************************************************************************)
Day(d) ==
  [Date |-> d, Prices |-> << >>, Openings |-> << >>, Transactions |-> << >>,
   Values |-> << >>, Assertions |-> << >>, Closings |-> << >>]

\* AST.AddOpen, AddPrice, AddTransaction, AddAssertion, AddValue, AddClose:
\* the directive is appended to the list of its kind of the Day of its date.
ASTAdd(a, d) ==
  LET day == IF d.Date \in DOMAIN a THEN a[d.Date] ELSE Day(d.Date)
  IN  Put(a, d.Date,
          CASE d.kind = "Open" -> [day EXCEPT !.Openings = Append(@, d)]
            [] d.kind = "Price" -> [day EXCEPT !.Prices = Append(@, d)]
            [] d.kind = "Transaction" -> [day EXCEPT !.Transactions = Append(@, d)]
            [] d.kind = "Assertion" -> [day EXCEPT !.Assertions = Append(@, d)]
            [] d.kind = "Value" -> [day EXCEPT !.Values = Append(@, d)]
            [] d.kind = "Close" -> [day EXCEPT !.Closings = Append(@, d)])

\* AST.SortedDays: the days in ascending date order.
RECURSIVE SortedDays(_)
SortedDays(a) ==
  IF DOMAIN a = {} THEN << >>
  ELSE LET d == CHOOSE x \in DOMAIN a : \A y \in DOMAIN a : x <= y
       IN  <<a[d]>> \o SortedDays([x \in (DOMAIN a) \ {d} |-> a[x]])

\* The order in which Finalize passes on the directives of one day.
FinalizeDay(d) ==
  d.Openings \o d.Prices \o d.Transactions \o d.Values \o d.Assertions \o d.Closings

\* The order in which PrintJournal prints the directives of one day.
PrintDay(d) ==
  d.Prices \o d.Openings \o d.Transactions \o d.Assertions \o d.Closings

RECURSIVE FinalizeAll(_, _)
FinalizeAll(ds, i) ==
  IF i > Len(ds) THEN << >> ELSE FinalizeDay(ds[i]) \o FinalizeAll(ds, i + 1)

RECURSIVE PrintAll(_, _)
PrintAll(ds, i) ==
  IF i > Len(ds) THEN << >> ELSE PrintDay(ds[i]) \o PrintAll(ds, i + 1)

SorterInputs ==
  {OpenDirective(d, Cash) : d \in Dates}
    \cup {CloseDirective(d, Cash) : d \in Dates}
    \cup {PriceDirective(d, "CHF", 2, "USD") : d \in Dates}
    \cup {TransactionDirective(d, <<Posting(Capital, Cash, "USD", 1, 0)>>) : d \in Dates}
    \cup {AssertionDirective(d, Cash, "USD", 1) : d \in Dates}
    \cup {ValueDirective(d, Cash, "CHF", 1) : d \in Dates}
    \cup {[kind |-> "Unknown", Date |-> 1]}

Kinds == {"Open", "Price", "Transaction", "Assertion", "Value", "Close"}

InitSorter ==
  /\ bal = New
  /\ ret = [op |-> "New", arg |-> Nil, err |-> Nil]
  /\ nops = 0
  /\ closed = {}
  /\ filter = [Accounts |-> Account, Commodities |-> Commodity]
  /\ received = << >>
  /\ steps = EmptyMap
  /\ phase = "adding"
  /\ days = << >>
  /\ trace = << >>
  /\ ast = EmptyMap
  /\ emitted = << >>
  /\ variant = "ProcessStream"
  /\ Diff = FALSE
  /\ cancelled = FALSE
  /\ source = [pc |-> "push", i |-> 1]
  /\ valuator = [pc |-> "pop", day |-> [Date |-> 0, bad |-> FALSE, Values |-> 0], values |-> 0]
  /\ differ = [pc |-> "pop", day |-> [Date |-> 0, bad |-> FALSE, Values |-> 0],
               res |-> [Date |-> 0, bad |-> FALSE, Values |-> 0], prev |-> 0]
  /\ chans = [vRes |-> << >>, dRes |-> << >>]
  /\ closedCh = {}
  /\ hist = [vIn |-> << >>, dIn |-> << >>, out |-> << >>, errs |-> << >>]
  /\ HeapIdle
  /\ ValuatorIdle
  /\ PipeIdle

\* Sorter.Process
SorterProcess(d) ==
  /\ phase = "adding"
  /\ Len(received) < MaxDirectives
  /\ received' = Append(received, d)
  /\ IF d.kind \in Kinds
       THEN /\ ast' = ASTAdd(ast, d)
            /\ ret' = [op |-> "Sorter.Process", arg |-> d, err |-> Nil]
            /\ phase' = phase
       ELSE /\ ast' = ast
            /\ ret' = [op |-> "Sorter.Process", arg |-> d, err |-> "unknown"]
            /\ phase' = "failed"
  /\ UNCHANGED <<bal, nops, closed, filter, steps, days, trace, emitted, streamVars, heapVars, valVars, pipeVars>>

\* Sorter.Finalize: passes the directives to next until next returns false.
SorterFinalize ==
  /\ phase = "adding"
  /\ LET all == FinalizeAll(SortedDays(ast), 1)
     IN  \E k \in (1..Len(all)) \cup {Len(all)} : emitted' = SubSeq(all, 1, k)
  /\ phase' = "finalized"
  /\ ret' = [op |-> "Sorter.Finalize", arg |-> Nil, err |-> Nil]
  /\ UNCHANGED <<bal, nops, closed, filter, received, steps, days, trace, ast, streamVars, heapVars, valVars, pipeVars>>

\* PrintJournal: writes the directives until a write fails.
PrintJournal ==
  /\ phase = "adding"
  /\ LET all == PrintAll(SortedDays(ast), 1)
     IN  \E k \in 0..Len(all) :
           /\ emitted' = SubSeq(all, 1, k)
           /\ ret' = [op |-> "PrintJournal", arg |-> Nil,
                      err |-> IF k < Len(all) THEN "write failed" ELSE Nil]
  /\ phase' = "printed"
  /\ UNCHANGED <<bal, nops, closed, filter, received, steps, days, trace, ast, streamVars, heapVars, valVars, pipeVars>>

NextSorter ==
  \/ \E d \in SorterInputs : SorterProcess(d)
  \/ SorterFinalize
  \/ PrintJournal

SpecSorter == InitSorter /\ [][NextSorter]_vars

\* The fixed same-day priority of the directive kinds.
KindRank(k) ==
  CASE k = "Price" -> 1
    [] k = "Open" -> 2
    [] k = "Transaction" -> 3
    [] k = "Value" -> 4
    [] k = "Assertion" -> 5
    [] k = "Close" -> 6

\* C8: the directives of one date are passed on in the kind order Price,
\* Open, Transaction, Value, Assertion, Close, whatever their input order.
SameDayKindOrder ==
  \A i \in DOMAIN emitted : \A j \in DOMAIN emitted :
    (i < j /\ emitted[i].Date = emitted[j].Date)
      => KindRank(emitted[i].kind) <= KindRank(emitted[j].kind)

(***************************************************************************)
(* The streaming pipeline: a source, the Valuator stage, the Differ stage  *)
(* and a consumer, connected by channels and sharing one context.          *)
(***************************************************************************)
MaxDays == 3

\* Capacity of the buffered result channels (100 in the program).
ChanCap == 2

NoDay == [Date |-> 0, bad |-> FALSE, Values |-> 0]

\* The day the source emits as its i-th: dates ascend; bad tells whether the
\* valuation of the day's posting fails.
SourceDay(i, bad) == [Date |-> i, bad |-> bad, Values |-> 0]

\* Variant: the Date field of the result is left unset.
DifferResultNoDate(d, prev) == [Date |-> 0, bad |-> d.bad, Values |-> d.Values - prev]

\* Differ.ProcessStream: res := &val.Day{Date: d.Date, Values: d.Values.Clone().Minus(prev)}
DifferResult(d, prev) == [Date |-> d.Date, bad |-> d.bad, Values |-> d.Values - prev]

\* Differ.Process2: d.Value = d.Value.Clone().Minus(prev), d itself is passed on.
DifferResult2(d, prev) == [d EXCEPT !.Values = d.Values - prev]

\* The channel the consumer receives results from.
FinalCh == IF Diff THEN "dRes" ELSE "vRes"

InitStream ==
  /\ bal = New
  /\ ret = [op |-> "New", arg |-> Nil, err |-> Nil]
  /\ nops = 0
  /\ closed = {}
  /\ filter = [Accounts |-> Account, Commodities |-> Commodity]
  /\ received = << >>
  /\ steps = EmptyMap
  /\ phase = "adding"
  /\ days = << >>
  /\ trace = << >>
  /\ ast = EmptyMap
  /\ emitted = << >>
  /\ variant \in {"ProcessStream", "Process2"}
  /\ Diff \in BOOLEAN
  /\ cancelled = FALSE
  /\ source = [pc |-> "push", i |-> 1]
  /\ valuator = [pc |-> "pop", day |-> NoDay, values |-> 0]
  /\ differ = [pc |-> IF Diff THEN "pop" ELSE "none", day |-> NoDay,
               res |-> NoDay, prev |-> 0]
  /\ chans = [vRes |-> << >>, dRes |-> << >>]
  /\ closedCh = IF ~Diff /\ variant = "ProcessStream" THEN {"dErr"} ELSE {}
  /\ hist = [vIn |-> << >>, dIn |-> << >>, out |-> << >>, errs |-> << >>]
  /\ HeapIdle
  /\ ValuatorIdle
  /\ PipeIdle

restVars ==
  <<bal, ret, nops, closed, filter, received, steps, phase, days, trace, ast, emitted,
    variant, Diff, heapVars, valVars, pipeVars>>

\* The channels a returning Valuator stage closes.
ValuatorChannels == IF variant = "ProcessStream" THEN {"vErr", "vRes"} ELSE {"vRes"}

\* The channels a returning Differ stage closes.
DifferChannels == IF variant = "ProcessStream" THEN {"dErr", "dRes"} ELSE {"dRes"}

\* The context is cancelled by its owner.
Cancel ==
  /\ ~cancelled
  /\ cancelled' = TRUE
  /\ UNCHANGED <<restVars, source, valuator, differ, chans, closedCh, hist>>

\* The source sends its next day and the Valuator stage, blocked in
\* cpr.Pop, receives it and processes it up to its next channel operation.
SourcePush(bad) ==
  /\ source.pc = "push"
  /\ source.i <= MaxDays
  /\ valuator.pc = "pop"
  /\ source' = [source EXCEPT !.i = @ + 1]
  /\ hist' = [hist EXCEPT !.vIn = Append(@, source.i)]
  /\ LET values == valuator.values + (IF bad THEN 0 ELSE 1)
         day == [SourceDay(source.i, bad) EXCEPT !.Values = values]
     IN  IF variant = "Process2" /\ bad
           THEN \* Process2 returns the valuation error; the group cancels
                /\ valuator' = [valuator EXCEPT !.pc = "done"]
                /\ closedCh' = closedCh \cup ValuatorChannels
                /\ cancelled' = TRUE
           ELSE /\ valuator' = [pc |-> IF bad THEN "pusherr" ELSE "push",
                                day |-> day, values |-> values]
                /\ UNCHANGED <<closedCh, cancelled>>
  /\ UNCHANGED <<restVars, differ, chans>>

\* cpr.Push in the source observes the cancellation.
SourceCancelled ==
  /\ source.pc = "push"
  /\ source.i <= MaxDays
  /\ cancelled
  /\ source' = [source EXCEPT !.pc = "done"]
  /\ closedCh' = closedCh \cup {"in"}
  /\ UNCHANGED <<restVars, cancelled, valuator, differ, chans, hist>>

\* The source has sent all its days.
SourceReturn ==
  /\ source.pc = "push"
  /\ source.i > MaxDays
  /\ source' = [source EXCEPT !.pc = "done"]
  /\ closedCh' = closedCh \cup {"in"}
  /\ UNCHANGED <<restVars, cancelled, valuator, differ, chans, hist>>

\* The Valuator stage returns and closes its channels.
ValuatorReturn(err) ==
  /\ valuator' = [valuator EXCEPT !.pc = "done"]
  /\ closedCh' = closedCh \cup ValuatorChannels
  /\ cancelled' = (cancelled \/ (variant = "Process2" /\ err))
  /\ UNCHANGED <<restVars, source, differ, chans, hist>>

ValuatorPopClosed ==
  /\ valuator.pc = "pop"
  /\ "in" \in closedCh
  /\ ValuatorReturn(FALSE)

ValuatorPopCancelled ==
  /\ valuator.pc = "pop"
  /\ cancelled
  /\ ValuatorReturn(TRUE)

\* The error of the day is sent on errCh and the consumer receives it.
ValuatorPushError ==
  /\ valuator.pc = "pusherr"
  /\ valuator' = [valuator EXCEPT !.pc = "push"]
  /\ hist' = [hist EXCEPT !.errs = Append(@, valuator.day.Date)]
  /\ UNCHANGED <<restVars, cancelled, source, differ, chans, closedCh>>

ValuatorPushErrorCancelled ==
  /\ valuator.pc = "pusherr"
  /\ cancelled
  /\ ValuatorReturn(TRUE)

ValuatorPush ==
  /\ valuator.pc = "push"
  /\ Len(chans.vRes) < ChanCap
  /\ chans' = [chans EXCEPT !.vRes = Append(@, valuator.day)]
  /\ valuator' = [valuator EXCEPT !.pc = "pop"]
  /\ UNCHANGED <<restVars, cancelled, source, differ, closedCh, hist>>

ValuatorPushCancelled ==
  /\ valuator.pc = "push"
  /\ cancelled
  /\ ValuatorReturn(TRUE)

\* The Differ stage returns and closes its channels.
DifferReturn(err) ==
  /\ differ' = [differ EXCEPT !.pc = "done"]
  /\ closedCh' = closedCh \cup DifferChannels
  /\ cancelled' = (cancelled \/ (variant = "Process2" /\ err))
  /\ UNCHANGED <<restVars, source, valuator, chans, hist>>

DifferPop ==
  /\ differ.pc = "pop"
  /\ chans.vRes # << >>
  /\ LET d == Head(chans.vRes)
     IN  /\ differ' =
              IF variant = "ProcessStream"
                THEN [pc |-> "push", day |-> d, res |-> DifferResult(d, differ.prev),
                      prev |-> differ.prev]
                ELSE [pc |-> "push", day |-> d, res |-> DifferResult2(d, differ.prev),
                      prev |-> d.Values]
         /\ hist' = [hist EXCEPT !.dIn = Append(@, d.Date)]
  /\ chans' = [chans EXCEPT !.vRes = Tail(@)]
  /\ UNCHANGED <<restVars, cancelled, source, valuator, closedCh>>

DifferPopClosed ==
  /\ differ.pc = "pop"
  /\ chans.vRes = << >>
  /\ "vRes" \in closedCh
  /\ DifferReturn(FALSE)

DifferPopCancelled ==
  /\ differ.pc = "pop"
  /\ cancelled
  /\ DifferReturn(TRUE)

DifferPush ==
  /\ differ.pc = "push"
  /\ Len(chans.dRes) < ChanCap
  /\ chans' = [chans EXCEPT !.dRes = Append(@, differ.res)]
  /\ differ' = [differ EXCEPT !.pc = "pop", !.prev = differ.day.Values]
  /\ UNCHANGED <<restVars, cancelled, source, valuator, closedCh, hist>>

DifferPushCancelled ==
  /\ differ.pc = "push"
  /\ cancelled
  /\ DifferReturn(TRUE)

\* The consumer receives the next result.
ConsumerReceive ==
  /\ chans[FinalCh] # << >>
  /\ hist' = [hist EXCEPT !.out = Append(@, Head(chans[FinalCh]).Date)]
  /\ chans' = [chans EXCEPT ![FinalCh] = Tail(@)]
  /\ UNCHANGED <<restVars, cancelled, source, valuator, differ, closedCh>>

NextStream ==
  \/ Cancel
  \/ \E bad \in BOOLEAN : SourcePush(bad)
  \/ SourceCancelled
  \/ SourceReturn
  \/ ValuatorPopClosed
  \/ ValuatorPopCancelled
  \/ ValuatorPushError
  \/ ValuatorPushErrorCancelled
  \/ ValuatorPush
  \/ ValuatorPushCancelled
  \/ DifferPop
  \/ DifferPopClosed
  \/ DifferPopCancelled
  \/ DifferPush
  \/ DifferPushCancelled
  \/ ConsumerReceive

SpecStream == InitStream /\ [][NextStream]_vars

RECURSIVE IsSubsequence(_, _)
\* s can be obtained from t by deleting elements.
IsSubsequence(s, t) ==
  IF s = << >> THEN TRUE
  ELSE IF t = << >> THEN FALSE
  ELSE IF Head(s) = Head(t) THEN IsSubsequence(Tail(s), Tail(t))
  ELSE IsSubsequence(s, Tail(t))

\* The dates of the days that left the Valuator stage, in the order in
\* which its result channel delivered them.
ValuatorOut == IF Diff THEN hist.dIn ELSE hist.out

\* C10: every stage outputs days in the relative order in which it received
\* them: the output dates are an order-preserving subsequence of the input
\* dates, in every interleaving.
StagesPreserveOrder ==
  /\ IsSubsequence(ValuatorOut, hist.vIn)
  /\ Diff => IsSubsequence(hist.out, hist.dIn)

\* The consumer has received two days from the Differ stage while the
\* Valuator stage has already received a third one.
StagesPreserveOrderWitness ==
  /\ Diff
  /\ Len(hist.out) = 2
  /\ Len(hist.vIn) = 3
  /\ Len(hist.dIn) >= 2

(***************************************************************************)
(* The Differ stage in diff mode.                                          *)
(***************************************************************************)
\* The number of results the Differ stage has sent on its result channel.
DifferSent == Len(hist.out) + Len(chans.dRes)

\* The Differ stage has returned after its input was closed, without any
\* cancellation: it has seen every snapshot the Valuator stage produced.
DifferCompleted ==
  /\ Diff
  /\ differ.pc = "done"
  /\ ~cancelled

\* C11: in diff mode the differ drops the first snapshot: for N input
\* snapshots it emits exactly N-1 outputs, none for N = 1.
DifferDropsFirst ==
  (DifferCompleted /\ Len(hist.dIn) >= 1) => DifferSent = Len(hist.dIn) - 1

(***************************************************************************)
(* Balances as the program holds them: a *Balance points to a struct whose *)
(* Amounts, Values and Accounts are maps, i.e. references.  Two structs    *)
(* that hold the same address share the map.                               *)
(***************************************************************************)
MaxBalances == 3

MaxCalls == 4

MaxSnapshots == 3

\* The balance a *Balance points to, with the contents of its maps.
Deref(h, o) ==
  [Amounts |-> h[o.Amounts], Values |-> h[o.Values], Accounts |-> h[o.Accounts]]

\* The maps of struct o are overwritten with the contents of b.
Store(h, o, b) ==
  [a \in DOMAIN h |->
     IF a = o.Accounts THEN b.Accounts
     ELSE IF a = o.Values THEN b.Values
     ELSE IF a = o.Amounts THEN b.Amounts
     ELSE h[a]]

\* The loop of Balance.Copy over a map: nb[pos] = amt for every entry.
CopyMap(m) == [pos \in DOMAIN m |-> m[pos]]

\* Variant: the copy holds the Accounts map of its original.
AccountsCopyShared(h, addr) == [heap |-> h, addr |-> addr]

\* Accounts.Copy: a new map with the same accounts.
AccountsCopy(h, addr) ==
  [heap |-> Append(h, {a \in h[addr] : TRUE}), addr |-> Len(h) + 1]

\* Balance.Copy: New allocates the maps of nb, the loops fill them.
BalanceCopy(h, o) ==
  LET h1 == Append(h, CopyMap(h[o.Amounts]))
      h2 == Append(h1, CopyMap(h[o.Values]))
      ac == AccountsCopy(h2, o.Accounts)
  IN  [heap |-> ac.heap,
       obj |-> [Amounts |-> Len(h) + 1, Values |-> Len(h) + 2, Accounts |-> ac.addr]]

\* One loop of Balance.Minus: m[pos] = m[pos].Sub(va) for every entry of mo.
MinusMap(m, mo) ==
  [pos \in (DOMAIN m) \cup (DOMAIN mo) |->
     IF pos \in DOMAIN mo THEN Get(m, pos) - mo[pos] ELSE m[pos]]

\* Variant: only the Amounts are subtracted.
BalanceMinusAmountsOnly(h, o, bo) ==
  [h EXCEPT ![o.Amounts] = MinusMap(h[o.Amounts], h[bo.Amounts])]

\* Balance.Minus: the receiver's Amounts, then its Values, are overwritten.
BalanceMinus(h, o, bo) ==
  LET h1 == [h EXCEPT ![o.Amounts] = MinusMap(h[o.Amounts], h[bo.Amounts])]
  IN  [h1 EXCEPT ![o.Values] = MinusMap(h1[o.Values], h1[bo.Values])]

\* Variant: every balance is diffed against the first one.
RECURSIVE DiffsFromFirst(_, _, _, _)
DiffsFromFirst(h, os, bals, i) ==
  IF i < 2 THEN h
  ELSE DiffsFromFirst(BalanceMinus(h, os[bals[i]], os[bals[1]]), os, bals, i - 1)

\* The loop of Diffs, from index i down: bals[i].Minus(bals[i-1]).
RECURSIVE DiffsFrom(_, _, _, _)
DiffsFrom(h, os, bals, i) ==
  IF i < 2 THEN h
  ELSE DiffsFrom(BalanceMinus(h, os[bals[i]], os[bals[i - 1]]), os, bals, i - 1)

\* Variant: the whole slice is returned.
DiffsKeepsFirst(h, os, bals) ==
  IF bals = << >>
    THEN [heap |-> h, out |-> << >>, err |-> "slice bounds out of range"]
    ELSE [heap |-> DiffsFrom(h, os, bals, Len(bals)), out |-> bals, err |-> Nil]

\* Variant: an empty slice gives an empty slice.
DiffsOfNoneIsNone(h, os, bals) ==
  IF bals = << >>
    THEN [heap |-> h, out |-> << >>, err |-> Nil]
    ELSE [heap |-> DiffsFrom(h, os, bals, Len(bals)),
          out |-> SubSeq(bals, 2, Len(bals)), err |-> Nil]

\* Diffs: the loop, then bals[1:], which faults on an empty slice.
Diffs(h, os, bals) ==
  IF bals = << >>
    THEN [heap |-> h, out |-> << >>, err |-> "slice bounds out of range"]
    ELSE [heap |-> DiffsFrom(h, os, bals, Len(bals)),
          out |-> SubSeq(bals, 2, Len(bals)), err |-> Nil]

\* The transactions booked on the balances.
HeapTransactions ==
  {Transaction(<<Posting(Capital, Cash, "USD", 1, 1)>>),
   Transaction(<<Posting(Cash, Food, "CHF", 2, 3)>>)}

\* The balances a run starts from: a new one, or one on which an account
\* was opened and a first transaction booked.
InitialBalances ==
  {New,
   [Amounts |-> BookPostingAmount(EmptyMap, Posting(Capital, Cash, "USD", 1, 1)),
    Values |-> BookPostingValue(EmptyMap, Posting(Capital, Cash, "USD", 1, 1)),
    Accounts |-> {Cash}]}

InitHeap ==
  /\ bal = New
  /\ ret = [op |-> "New", recv |-> 1, arg |-> Nil, err |-> Nil, out |-> << >>]
  /\ nops = 0
  /\ closed = {}
  /\ filter = [Accounts |-> Account, Commodities |-> Commodity]
  /\ received = << >>
  /\ steps = EmptyMap
  /\ phase = "adding"
  /\ days = << >>
  /\ trace = << >>
  /\ ast = EmptyMap
  /\ emitted = << >>
  /\ variant = "ProcessStream"
  /\ Diff = FALSE
  /\ cancelled = FALSE
  /\ source = [pc |-> "push", i |-> 1]
  /\ valuator = [pc |-> "pop", day |-> NoDay, values |-> 0]
  /\ differ = [pc |-> "pop", day |-> NoDay, res |-> NoDay, prev |-> 0]
  /\ chans = [vRes |-> << >>, dRes |-> << >>]
  /\ closedCh = {}
  /\ hist = [vIn |-> << >>, dIn |-> << >>, out |-> << >>, errs |-> << >>]
  /\ ValuatorIdle
  /\ PipeIdle
  /\ \E b \in InitialBalances : heap = <<b.Amounts, b.Values, b.Accounts>>
  /\ objs = <<[Amounts |-> 1, Values |-> 2, Accounts |-> 3]>>
  /\ snapshots = << >>
  /\ ghost = [origin |-> <<0>>, fresh |-> {}, orig |-> << >>]

otherVars ==
  <<bal, closed, ledgerVars, sorterVars, streamVars, valVars, pipeVars>>

\* The pairs of fresh copies that survive a write to the balances in S.
Touch(f, S) == {pr \in f : pr[1] \notin S /\ pr[2] \notin S}

\* A call on balance p that returns r, a record with the balance and the error.
Called(op, p, arg, r) ==
  /\ nops < MaxCalls
  /\ nops' = nops + 1
  /\ heap' = Store(heap, objs[p], r.b)
  /\ ret' = [op |-> op, recv |-> p, arg |-> arg, err |-> r.err, out |-> << >>]
  /\ ghost' = [ghost EXCEPT !.fresh = Touch(@, {p})]
  /\ UNCHANGED <<objs, snapshots, otherVars>>

HeapOpen(p, a) ==
  LET b == Deref(heap, objs[p])
      r == AccountsOpen(b.Accounts, a)
  IN  Called("Open", p, a, [b |-> [b EXCEPT !.Accounts = r.oa], err |-> r.err])

HeapClose(p, a) ==
  LET b == Deref(heap, objs[p])
      r == AccountsClose(b.Accounts, a)
  IN  Called("Close", p, a, [b |-> [b EXCEPT !.Accounts = r.oa], err |-> r.err])

HeapBookAmount(p, t) ==
  Called("bookAmount", p, t, bookAmount(Deref(heap, objs[p]), t))

HeapBookValue(p, t) ==
  Called("bookValue", p, t, bookValue(Deref(heap, objs[p]), t))

\* objs[p].Minus(objs[q])
HeapMinus(p, q) ==
  /\ nops < MaxCalls
  /\ nops' = nops + 1
  /\ heap' = BalanceMinus(heap, objs[p], objs[q])
  /\ ret' = [op |-> "Minus", recv |-> p, arg |-> q, err |-> Nil, out |-> << >>]
  /\ ghost' = [ghost EXCEPT !.fresh = Touch(@, {p})]
  /\ UNCHANGED <<objs, snapshots, otherVars>>

\* objs[p].Copy(); the copy is appended to the slice of snapshots.
HeapCopy(p) ==
  /\ nops < MaxCalls
  /\ Len(objs) < MaxBalances
  /\ nops' = nops + 1
  /\ LET r == BalanceCopy(heap, objs[p])
         q == Len(objs) + 1
     IN  /\ heap' = r.heap
         /\ objs' = Append(objs, r.obj)
         /\ snapshots' = Append(snapshots, q)
         /\ ret' = [op |-> "Copy", recv |-> p, arg |-> Nil, err |-> Nil, out |-> <<q>>]
         /\ ghost' = [ghost EXCEPT !.origin = Append(@, p), !.fresh = @ \cup {<<q, p>>}]
  /\ UNCHANGED otherVars

\* Diffs(snapshots)
HeapDiffs ==
  /\ nops < MaxCalls
  /\ nops' = nops + 1
  /\ LET r == Diffs(heap, objs, snapshots)
     IN  /\ heap' = r.heap
         /\ ret' = [op |-> "Diffs", recv |-> 0, arg |-> snapshots, err |-> r.err,
                    out |-> r.out]
         /\ ghost' = [ghost EXCEPT
                        !.fresh = Touch(@, {snapshots[i] : i \in 2..Len(snapshots)}),
                        !.orig = [i \in 1..Len(snapshots) |->
                                    Deref(heap, objs[snapshots[i]])]]
  /\ UNCHANGED <<objs, snapshots, otherVars>>

NextHeap ==
  \/ \E p \in DOMAIN objs, a \in {Cash} : HeapOpen(p, a)
  \/ \E p \in DOMAIN objs, a \in {Cash} : HeapClose(p, a)
  \/ \E p \in DOMAIN objs, t \in HeapTransactions : HeapBookAmount(p, t)
  \/ \E p \in DOMAIN objs, t \in HeapTransactions : HeapBookValue(p, t)
  \/ \E p \in DOMAIN objs, q \in DOMAIN objs : HeapMinus(p, q)
  \/ \E p \in DOMAIN objs : HeapCopy(p)
  \/ HeapDiffs

SpecHeap == InitHeap /\ [][NextHeap]_vars

(***************************************************************************)
(* Diffs on the snapshots of a running balance: after each transaction the *)
(* running balance is copied, and the copies are handed to Diffs.          *)
(***************************************************************************)
\* The transactions booked between two snapshots; the empty one leaves the
\* running balance as it is.
SnapshotTransactions ==
  {Transaction(<< >>),
   Transaction(<<Posting(Capital, Cash, "USD", 1, 1)>>),
   Transaction(<<Posting(Cash, Food, "USD", 1, 1)>>),
   Transaction(<<Posting(Capital, Cash, "CHF", 2, 3)>>),
   Transaction(<<Posting(Cash, Food, "CHF", 2, 3)>>)}

\* The sequences of transactions of at most n elements.
RECURSIVE TransactionSeqs(_)
TransactionSeqs(n) ==
  IF n = 0 THEN {<< >>}
  ELSE LET shorter == TransactionSeqs(n - 1)
       IN  shorter \cup {Append(ts, t) : ts \in {x \in shorter : Len(x) = n - 1},
                                          t \in SnapshotTransactions}

\* The memory after booking ts[i..] on the running balance 1 and copying it
\* after each transaction.
RECURSIVE Accumulate(_, _, _, _, _)
Accumulate(h, os, snaps, ts, i) ==
  IF i > Len(ts) THEN [heap |-> h, objs |-> os, snapshots |-> snaps]
  ELSE LET b1 == bookAmount(Deref(h, os[1]), ts[i]).b
           b2 == bookValue(b1, ts[i]).b
           h1 == Store(h, os[1], b2)
           c == BalanceCopy(h1, os[1])
       IN  Accumulate(c.heap, Append(os, c.obj), Append(snaps, Len(os) + 1), ts, i + 1)

InitDiffs ==
  /\ bal = New
  /\ ret = [op |-> "New", recv |-> 1, arg |-> Nil, err |-> Nil, out |-> << >>]
  /\ nops = 0
  /\ closed = {}
  /\ filter = [Accounts |-> Account, Commodities |-> Commodity]
  /\ received = << >>
  /\ steps = EmptyMap
  /\ phase = "adding"
  /\ days = << >>
  /\ trace = << >>
  /\ ast = EmptyMap
  /\ emitted = << >>
  /\ variant = "ProcessStream"
  /\ Diff = TRUE
  /\ cancelled = FALSE
  /\ source = [pc |-> "push", i |-> 1]
  /\ valuator = [pc |-> "pop", day |-> NoDay, values |-> 0]
  /\ differ = [pc |-> "pop", day |-> NoDay, res |-> NoDay, prev |-> 0]
  /\ chans = [vRes |-> << >>, dRes |-> << >>]
  /\ closedCh = {}
  /\ hist = [vIn |-> << >>, dIn |-> << >>, out |-> << >>, errs |-> << >>]
  /\ ValuatorIdle
  /\ PipeIdle
  /\ \E ts \in TransactionSeqs(MaxSnapshots) :
       LET m == Accumulate(<<EmptyMap, EmptyMap, Account>>,
                           <<[Amounts |-> 1, Values |-> 2, Accounts |-> 3]>>,
                           << >>, ts, 1)
       IN  /\ heap = m.heap
           /\ objs = m.objs
           /\ snapshots = m.snapshots
           /\ ghost = [origin |-> [p \in DOMAIN m.objs |-> IF p = 1 THEN 0 ELSE 1],
                       fresh |-> {}, orig |-> << >>]

NextDiffs == HeapDiffs

SpecDiffs == InitDiffs /\ [][NextDiffs]_vars

(***************************************************************************)
(* Properties of Diffs, Copy and Minus.                                    *)
(***************************************************************************)
\* The last call was a Diffs that returned.
DiffsReturned == ret.op = "Diffs" /\ ret.err = Nil

\* The balance the i-th element of the slice returned by Diffs points to.
Returned(i) == Deref(heap, objs[ret.out[i]])

\* m2 - m1 at the keys of m1.
IsDifference(d, m2, m1) ==
  \A pos \in DOMAIN m1 : Get(d, pos) = Get(m2, pos) - m1[pos]

\* C12: for a slice of N >= 1 balances Diffs returns N-1 balances, and
\* result[i] is, at every position of original[i], original[i+1] minus
\* original[i], for Amounts and for Values; the predecessor is subtracted
\* as it was before the call.
DiffsSubtractsPredecessor ==
  DiffsReturned =>
    LET o == ghost.orig
    IN  /\ Len(o) >= 1
        /\ Len(ret.out) = Len(o) - 1
        /\ \A i \in 1..Len(ret.out) :
             /\ IsDifference(Returned(i).Amounts, o[i + 1].Amounts, o[i].Amounts)
             /\ IsDifference(Returned(i).Values, o[i + 1].Values, o[i].Values)

\* Diffs has returned two balances from three snapshots; the second one is a
\* nonzero difference to a predecessor that was nonzero itself.
DiffsSubtractsPredecessorWitness ==
  /\ DiffsReturned
  /\ nops = 1
  /\ Len(ghost.orig) = 3
  /\ \E pos \in DOMAIN ghost.orig[2].Amounts :
       /\ ghost.orig[2].Amounts[pos] # 0
       /\ Returned(2).Amounts[pos] # 0
       /\ ghost.orig[2].Values[pos] # Returned(2).Values[pos]
       /\ Returned(1).Amounts[pos] # ghost.orig[2].Amounts[pos]

\* The sum at pos of the maps f(1), ..., f(n) of the returned balances.
RECURSIVE SumReturned(_, _, _)
SumReturned(field, pos, n) ==
  IF n = 0 THEN 0
  ELSE Get(Returned(n)[field], pos) + SumReturned(field, pos, n - 1)

\* C13: the first original balance plus all balances returned by Diffs is
\* the last original balance, at every position.
DiffsSumToLast ==
  DiffsReturned =>
    LET o == ghost.orig
    IN  \A pos \in Positions, field \in {"Amounts", "Values"} :
          Get(o[1][field], pos) + SumReturned(field, pos, Len(ret.out))
            = Get(o[Len(o)][field], pos)

\* Diffs has returned from three snapshots that differ pairwise in a position
\* the first one holds already.
DiffsSumToLastWitness ==
  /\ DiffsReturned
  /\ nops = 1
  /\ Len(ghost.orig) = 3
  /\ \E pos \in DOMAIN ghost.orig[1].Values :
       /\ ghost.orig[1].Values[pos] # 0
       /\ ghost.orig[2].Values[pos] # ghost.orig[1].Values[pos]
       /\ ghost.orig[3].Values[pos] # ghost.orig[2].Values[pos]
       /\ ghost.orig[3].Values[pos] # ghost.orig[1].Values[pos]

AllZero(m) == \A pos \in DOMAIN m : m[pos] = 0

\* C14: Minus(b) on a copy of b that was not written since it was made
\* leaves zero at every key of the copy's Amounts and Values.
CopyMinusIsZero ==
  [][(ret'.op = "Minus" /\ <<ret'.recv, ret'.arg>> \in ghost.fresh) =>
       /\ AllZero(heap'[objs[ret'.recv].Amounts])
       /\ AllZero(heap'[objs[ret'.recv].Values])
       /\ DOMAIN heap'[objs[ret'.recv].Amounts] = DOMAIN heap[objs[ret'.arg].Amounts]
       /\ DOMAIN heap'[objs[ret'.recv].Values] = DOMAIN heap[objs[ret'.arg].Values]]_vars

\* A balance with nonzero amounts and values was copied and then subtracted
\* from the copy.
CopyMinusIsZeroWitness ==
  /\ ret.op = "Minus"
  /\ nops = 2
  /\ ghost.origin[ret.recv] = ret.arg
  /\ \E pos \in DOMAIN heap[objs[ret.arg].Amounts] :
       /\ heap[objs[ret.arg].Amounts][pos] # 0
       /\ heap[objs[ret.arg].Values][pos] # 0
       /\ heap[objs[ret.recv].Amounts][pos] = 0

\* q is a copy of p or p is a copy of q.
CopyPair(p, q) == ghost.origin[q] = p \/ ghost.origin[p] = q

\* C15: a call on a copy leaves the Amounts, Values and open accounts of its
\* original unchanged, and a call on the original leaves the copy unchanged.
CopyIsIndependent ==
  [][ret'.recv \in DOMAIN objs =>
       \A q \in DOMAIN objs :
         (q # ret'.recv /\ CopyPair(ret'.recv, q)) =>
           Deref(heap', objs[q]) = Deref(heap, objs[q])]_vars

\* A copy of balance 1 was written last, and its amounts and its open
\* accounts are no longer those of balance 1.
CopyIsIndependentWitness ==
  /\ ret.recv \in DOMAIN objs
  /\ ret.recv # 1
  /\ ghost.origin[ret.recv] = 1
  /\ ret.op \in {"bookAmount", "Minus", "Open", "Close"}
  /\ heap[objs[ret.recv].Amounts] # heap[objs[1].Amounts]
  /\ heap[objs[ret.recv].Accounts] # heap[objs[1].Accounts]

(***************************************************************************)
(* The Valuator: Values are built from the valuated postings of each day   *)
(* and corrected by synthesized valuation transactions.                    *)
(***************************************************************************)
MaxValDays == 3

\* The commodity whose price changes, and the prices a day may set for it
\* in the valuation commodity.
Priced == "CHF"

Rates == {2, 3}

\* NormalizedPrices of a day: the valuation commodity at 1 and the priced
\* commodity at the last rate set (0: none so far); without a valuation
\* commodity nothing is priced.
Normalize(valuation, rate) ==
  [c \in (IF valuation = Nil THEN {} ELSE {valuation})
           \cup (IF valuation = Nil \/ rate = 0 THEN {} ELSE {Priced}) |->
     IF c = valuation THEN 1 ELSE rate]

\* NormalizedPrices.Valuate: the amount at the price of the commodity, or an
\* error naming the commodity.
Valuate(n, c, amt) ==
  IF c \in DOMAIN n THEN [val |-> amt * n[c], err |-> Nil]
  ELSE [val |-> 0, err |-> c]

\* Amounts.Book
AmountsBook(m, cr, dr, a, c) ==
  LET crPos == CommodityAccount(cr, c)
      drPos == CommodityAccount(dr, c)
      m1 == Put(m, crPos, Get(m, crPos) - a)
  IN  Put(m1, drPos, Get(m1, drPos) + a)

\* Context.ValuationAccountFor
ValuationAccountFor(a) ==
  CASE a = Cash -> "Equity:Valuation:Cash"
    [] a = Food -> "Equity:Valuation:Food"
    [] a = Capital -> "Equity:Valuation:Capital"

\* Variant: every posting is valuated.
ValuatesPostingAlways(c) == TRUE

\* pr.Valuation != nil && pr.Valuation != posting.Commodity
ValuatesPosting(c) == Valuation # Nil /\ Valuation # c

\* The amount a posting is booked with, and the error of its valuation.
ValuatePosting(n, p) ==
  IF ValuatesPosting(p.Commodity) THEN Valuate(n, p.Commodity, p.Amount)
  ELSE [val |-> p.Amount, err |-> Nil]

\* valuateAndBookTransaction, from posting i on: a failed valuation is
\* collected and the posting is booked with the amount Valuate returned.
RECURSIVE valuateAndBookFrom(_, _, _, _, _, _)
valuateAndBookFrom(values, n, postings, i, valued, errors) ==
  IF i > Len(postings)
    THEN [values |-> values, postings |-> valued, errors |-> errors]
    ELSE LET r == ValuatePosting(n, postings[i])
             q == [postings[i] EXCEPT !.Amount = r.val]
         IN  valuateAndBookFrom(
               AmountsBook(values, q.Credit, q.Debit, q.Amount, q.Commodity),
               n, postings, i + 1, Append(valued, q),
               IF r.err # Nil THEN Append(errors, r.err) ELSE errors)

valuateAndBookTransaction(values, n, t) ==
  valuateAndBookFrom(values, n, t.Postings, 1, << >>, << >>)

\* The loop of ProcessStream over the day's transactions.
RECURSIVE StreamTransactions(_, _, _, _, _, _)
StreamTransactions(values, n, txs, i, out, errors) ==
  IF i > Len(txs) THEN [values |-> values, txs |-> out, errors |-> errors]
  ELSE LET r == valuateAndBookTransaction(values, n, txs[i])
       IN  StreamTransactions(r.values, n, txs, i + 1,
                              Append(out, [txs[i] EXCEPT !.Postings = r.postings]),
                              errors \o r.errors)

\* The posting loop of Process2 and Process, from posting i on: the first
\* failed valuation is returned, the postings before it stay booked.
RECURSIVE valuateOrReturn(_, _, _, _, _)
valuateOrReturn(values, n, postings, i, valued) ==
  IF i > Len(postings) THEN [values |-> values, postings |-> valued, err |-> Nil]
  ELSE LET r == ValuatePosting(n, postings[i])
           q == [postings[i] EXCEPT !.Amount = r.val]
       IN  IF r.err # Nil
             THEN [values |-> values, postings |-> valued, err |-> r.err]
             ELSE valuateOrReturn(
                    AmountsBook(values, q.Credit, q.Debit, q.Amount, q.Commodity),
                    n, postings, i + 1, Append(valued, q))

\* The loop of Process2 over the day's transactions.
RECURSIVE Transactions2(_, _, _, _, _)
Transactions2(values, n, txs, i, out) ==
  IF i > Len(txs) THEN [values |-> values, txs |-> out, err |-> Nil]
  ELSE LET r == valuateOrReturn(values, n, txs[i].Postings, 1, << >>)
       IN  IF r.err # Nil THEN [values |-> r.values, txs |-> out, err |-> r.err]
           ELSE Transactions2(r.values, n, txs, i + 1,
                              Append(out, [txs[i] EXCEPT !.Postings = r.postings]))

\* Variant: positions of every account type are revalued.
RevaluedAnyType(pos) == pos.Commodity # Valuation

\* The positions the valuation loops do not skip: not in the valuation
\* commodity, and of an Assets or Liabilities account.
Revalued(pos) ==
  /\ pos.Commodity # Valuation
  /\ Type(pos.Account) \in {"Assets", "Liabilities"}

\* Variant: the whole value is booked.
DifferenceFull(value, recorded) == value

\* diff := value.Sub(values[pos])
Difference(value, recorded) == value - recorded

\* The orders in which a range loop may visit the positions in S.
Orders(S) ==
  {f \in [1..Cardinality(S) -> S] : \A i, j \in DOMAIN f : f[i] = f[j] => i = j}

\* Variant: the adjustment is booked into the amounts as well.
BookAdjustmentBoth(values, amounts, credit, debit, diff, c) ==
  [values |-> AmountsBook(values, credit, debit, diff, c),
   amounts |-> AmountsBook(amounts, credit, debit, diff, c)]

\* day.Values.Book(credit, pos.Account, diff, pos.Commodity): the values and
\* the amounts of the day after an adjustment was booked.
BookAdjustment(values, amounts, credit, debit, diff, c) ==
  [values |-> AmountsBook(values, credit, debit, diff, c), amounts |-> amounts]

\* The loop over the positions of amounts, visited in the given order, of
\* computeValuationTransactions, processValuationTransactions2 and
\* processValuationTransactions: it stops at the first failed valuation.
RECURSIVE ValuationTransactions(_, _, _, _, _, _, _)
ValuationTransactions(values, txs, amounts, n, date, order, i) ==
  IF i > Len(order)
    THEN [values |-> values, txs |-> txs, err |-> Nil, amounts |-> amounts]
  ELSE LET pos == order[i]
           r == Valuate(n, pos.Commodity, amounts[pos])
           diff == Difference(r.val, Get(values, pos))
           credit == ValuationAccountFor(pos.Account)
           t == [Date |-> date,
                 Postings |-> <<Posting(credit, pos.Account, pos.Commodity, diff, 0)>>]
           bk == BookAdjustment(values, amounts, credit, pos.Account, diff, pos.Commodity)
       IN  IF r.err # Nil
             THEN [values |-> values, txs |-> txs, err |-> r.err, amounts |-> amounts]
           ELSE IF diff = 0
             THEN ValuationTransactions(values, txs, amounts, n, date, order, i + 1)
             ELSE ValuationTransactions(bk.values, Append(txs, t), bk.amounts, n, date,
                                        order, i + 1)

\* The positions of amounts that a valuation loop does not skip.
RevaluedPositions(amounts) == {pos \in DOMAIN amounts : Revalued(pos)}

\* computeValuationTransactions: nothing without a valuation commodity; a
\* failed valuation panics.
computeValuationTransactions(values, amounts, n, date, order) ==
  IF Valuation = Nil
    THEN [values |-> values, txs |-> << >>, err |-> Nil, amounts |-> amounts]
  ELSE ValuationTransactions(values, << >>, amounts, n, date, order, 1)

\* Variant: the running values are passed on without a copy.
AmountsCloneShared(h, addr) == [heap |-> h, addr |-> addr]

\* Amounts.Clone: a new map with the same entries.
AmountsClone(h, addr) == [heap |-> Append(h, CopyMap(h[addr])), addr |-> Len(h) + 1]

(***************************************************************************)
(* One Valuator fed day by day: Valuator.ProcessStream and Process2 take   *)
(* whole days, Valuator.Process takes the elements of a day one by one and *)
(* Finalize ends the run.                                                  *)
(***************************************************************************)
\* The postings of the transactions a day may carry.
DayPostings ==
  {<< >>,
   <<(<<Posting(Capital, Cash, Priced, 1, 0)>>)>>,
   <<(<<Posting(Cash, Food, Priced, 1, 0)>>)>>,
   <<(<<Posting(Capital, Food, Priced, 1, 0)>>)>>,
   <<(<<Posting(Capital, Cash, "USD", 1, 0), Posting(Capital, Cash, Priced, 2, 0)>>)>>,
   <<(<<Posting(Capital, Cash, Priced, 1, 0)>>), (<<Posting(Cash, Food, "USD", 1, 0)>>)>>}

\* The amounts after the postings of txs[i..] were booked.
RECURSIVE UpstreamAmounts(_, _, _)
UpstreamAmounts(amounts, txs, i) ==
  IF i > Len(txs) THEN amounts
  ELSE UpstreamAmounts(bookAmount([New EXCEPT !.Amounts = amounts, !.Accounts = Account],
                                  txs[i]).b.Amounts,
                       txs, i + 1)

\* The next day as the stages before the Valuator hand it on: price is the
\* rate set on that day (0: none), pss the postings of its transactions.
UpDay(price, pss) ==
  LET date == up.date + 1
      rate == IF price = 0 THEN up.rate ELSE price
      txs == [i \in 1..Len(pss) |-> [Date |-> date, Postings |-> pss[i]]]
  IN  [Date |-> date, rate |-> rate, newPrice |-> price # 0,
       Prices |-> Normalize(Valuation, rate),
       Transactions |-> txs,
       Amounts |-> UpstreamAmounts(up.amounts, txs, 1)]

\* The elements of a day in the order in which Valuator.Process gets them.
Elements(day) ==
  (IF day.newPrice
     THEN <<[Date |-> day.Date, kind |-> "NormalizedPrices", Elem |-> day.Prices]>>
     ELSE << >>)
  \o [i \in 1..Len(day.Transactions) |->
        [Date |-> day.Date, kind |-> "Transaction", Elem |-> day.Transactions[i]]]
  \o <<[Date |-> day.Date, kind |-> "Amounts", Elem |-> day.Amounts]>>

\* The stages before the Valuator after they handed on day.
Upstream(day, pending) ==
  [date |-> day.Date, rate |-> day.rate, amounts |-> day.Amounts, pending |-> pending,
   hist |-> Append(up.hist, [Amounts |-> day.Amounts, Prices |-> day.Prices,
                             newPrice |-> pending # << >> /\
                                            Head(pending).kind = "NormalizedPrices",
                             Transactions |-> day.Transactions])]

InitVal ==
  /\ bal = New
  /\ ret = [op |-> "New", arg |-> Nil, err |-> Nil]
  /\ nops = 0
  /\ closed = {}
  /\ filter = [Accounts |-> Account, Commodities |-> Commodity]
  /\ received = << >>
  /\ steps = EmptyMap
  /\ phase = "adding"
  /\ days = << >>
  /\ trace = << >>
  /\ ast = EmptyMap
  /\ emitted = << >>
  /\ Diff = FALSE
  /\ cancelled = FALSE
  /\ source = [pc |-> "push", i |-> 1]
  /\ valuator = [pc |-> "pop", day |-> NoDay, values |-> 0]
  /\ differ = [pc |-> "pop", day |-> NoDay, res |-> NoDay, prev |-> 0]
  /\ chans = [vRes |-> << >>, dRes |-> << >>]
  /\ closedCh = {}
  /\ hist = [vIn |-> << >>, dIn |-> << >>, out |-> << >>, errs |-> << >>]
  /\ objs = << >>
  /\ snapshots = << >>
  /\ ghost = NoGhost
  /\ variant \in {"ProcessStream", "Process2", "Process"}
  /\ Valuation \in {Nil, "USD"}
  /\ variant = "Process" => Valuation # Nil
  /\ heap = <<EmptyMap>>
  /\ valst = [status |-> "running", values |-> 1, amounts |-> EmptyMap,
              normalized |-> EmptyMap, date |-> 0, newPrices |-> FALSE,
              newTrx |-> FALSE, before |-> EmptyMap]
  /\ up = [date |-> 0, rate |-> 0, amounts |-> EmptyMap, pending |-> << >>,
           hist |-> << >>]
  /\ sink = [out |-> << >>, errs |-> << >>, ret |-> Nil, failed |-> << >>,
             amounts |-> << >>]
  /\ PipeIdle

valOtherVars ==
  <<balVars, ledgerVars, sorterVars, variant, Diff, cancelled, source, valuator, differ,
    chans, closedCh, hist, objs, snapshots, ghost, Valuation, pipeVars>>

\* The failed valuations es of commodities on a date, as reported.
Failures(es, date) == [i \in 1..Len(es) |-> [Commodity |-> es[i], Date |-> date]]

\* What a stage passes on for a day: the Values map it booked into, the
\* transactions, and for reference the values before and after the
\* day's postings were booked and the synthesized transactions.
ValuatedDay(kind, date, addr, txs, synthesized, booked, before) ==
  [kind |-> kind, Date |-> date, Values |-> addr, Transactions |-> txs,
   synthesized |-> synthesized, booked |-> booked, before |-> before]

\* One iteration of the loop of Valuator.ProcessStream; the errors are
\* received from errCh by the consumer.
ValuatorProcessStream(price, pss) ==
  /\ variant = "ProcessStream"
  /\ valst.status = "running"
  /\ up.date < MaxValDays
  /\ LET day == UpDay(price, pss)
         before == heap[valst.values]
         bk == StreamTransactions(before, day.Prices, day.Transactions, 1, << >>, << >>)
         errs == Failures(bk.errors, day.Date)
     IN  /\ \E order \in Orders(RevaluedPositions(day.Amounts)) :
              LET rv == computeValuationTransactions(bk.values, day.Amounts, day.Prices,
                                                     day.Date, order)
                  h1 == [heap EXCEPT ![valst.values] = rv.values]
                  cl == AmountsClone(h1, valst.values)
              IN  IF rv.err # Nil
                    THEN /\ valst' = [valst EXCEPT !.status = "panicked"]
                         /\ heap' = h1
                         /\ sink' = [sink EXCEPT
                                       !.errs = @ \o errs,
                                       !.amounts = Append(@, rv.amounts),
                                       !.failed = @ \o errs \o Failures(<<rv.err>>, day.Date)]
                    ELSE /\ valst' = [valst EXCEPT !.values = cl.addr]
                         /\ heap' = cl.heap
                         /\ sink' = [sink EXCEPT
                                       !.errs = @ \o errs,
                                       !.failed = @ \o errs,
                                       !.amounts = Append(@, rv.amounts),
                                       !.out = Append(@, ValuatedDay("Day", day.Date,
                                                 valst.values, bk.txs \o rv.txs, rv.txs,
                                                 bk.values, before))]
         /\ up' = Upstream(day, << >>)
  /\ UNCHANGED valOtherVars

\* One iteration of the loop of Valuator.Process2: a failed valuation of a
\* posting is returned; the result of processValuationTransactions2 is not
\* looked at.
ValuatorProcess2(price, pss) ==
  /\ variant = "Process2"
  /\ valst.status = "running"
  /\ up.date < MaxValDays
  /\ LET day == UpDay(price, pss)
         before == heap[valst.values]
         bk == Transactions2(before, day.Prices, day.Transactions, 1, << >>)
     IN  /\ IF bk.err # Nil
              THEN /\ valst' = [valst EXCEPT !.status = "failed"]
                   /\ heap' = [heap EXCEPT ![valst.values] = bk.values]
                   /\ sink' = [sink EXCEPT !.ret = bk.err,
                                           !.amounts = Append(@, day.Amounts),
                                           !.failed = @ \o Failures(<<bk.err>>, day.Date)]
              ELSE \E order \in Orders(RevaluedPositions(day.Amounts)) :
                     LET rv == ValuationTransactions(bk.values, << >>, day.Amounts,
                                                     day.Prices, day.Date, order, 1)
                         cl == AmountsClone([heap EXCEPT ![valst.values] = rv.values],
                                            valst.values)
                     IN  /\ valst' = [valst EXCEPT !.values = cl.addr]
                         /\ heap' = cl.heap
                         /\ sink' = [sink EXCEPT
                                       !.amounts = Append(@, rv.amounts),
                                       !.failed = IF rv.err # Nil /\ Valuation # Nil
                                                    THEN @ \o Failures(<<rv.err>>, day.Date)
                                                    ELSE @,
                                       !.out = Append(@, ValuatedDay("Day", day.Date,
                                                 valst.values, bk.txs \o rv.txs, rv.txs,
                                                 bk.values, before))]
         /\ up' = Upstream(day, << >>)
  /\ UNCHANGED valOtherVars

\* The input channel of a streaming stage is closed: the stage returns.
ValuatorInputClosed ==
  /\ variant \in {"ProcessStream", "Process2"}
  /\ valst.status = "running"
  /\ valst' = [valst EXCEPT !.status = "returned"]
  /\ UNCHANGED <<valOtherVars, heap, up, sink>>

\* The stages before the Valuator produce the elements of the next day.
UpstreamDay(price, pss) ==
  /\ variant = "Process"
  /\ valst.status = "running"
  /\ up.pending = << >>
  /\ up.date < MaxValDays
  /\ LET day == UpDay(price, pss)
     IN  up' = Upstream(day, Elements(day))
  /\ UNCHANGED <<valOtherVars, heap, valst, sink>>

\* Variant: the snapshot is emitted whatever newPrices and newTrx are.
DateChangeAlways(order) ==
  LET values == heap[valst.values]
      rv == IF valst.newPrices
              THEN ValuationTransactions(values, << >>, valst.amounts, valst.normalized,
                                         valst.date, order, 1)
              ELSE [values |-> values, txs |-> << >>, err |-> Nil,
                    amounts |-> valst.amounts]
      h1 == [heap EXCEPT ![valst.values] = rv.values]
      elems == [i \in 1..Len(rv.txs) |->
                  [Date |-> valst.date, kind |-> "Transaction", Elem |-> rv.txs[i]]]
      cl == AmountsClone(h1, valst.values)
  IN  IF rv.err # Nil
        THEN [heap |-> h1, out |-> elems, err |-> rv.err, amounts |-> rv.amounts]
        ELSE [heap |-> cl.heap, err |-> Nil, amounts |-> rv.amounts,
              out |-> Append(elems, ValuatedDay("Values", valst.date, cl.addr, << >>,
                                                rv.txs, values, valst.before))]

\* Lines 204-211 of Valuator.Process, the same as in Finalize: the valuation
\* transactions of the date that ends, then the snapshot of its values.
DateChange(order) ==
  LET values == heap[valst.values]
      rv == IF valst.newPrices
              THEN ValuationTransactions(values, << >>, valst.amounts, valst.normalized,
                                         valst.date, order, 1)
              ELSE [values |-> values, txs |-> << >>, err |-> Nil,
                    amounts |-> valst.amounts]
      h1 == [heap EXCEPT ![valst.values] = rv.values]
      elems == [i \in 1..Len(rv.txs) |->
                  [Date |-> valst.date, kind |-> "Transaction", Elem |-> rv.txs[i]]]
      cl == AmountsClone(h1, valst.values)
  IN  IF rv.err # Nil
        THEN [heap |-> h1, out |-> elems, err |-> rv.err, amounts |-> rv.amounts]
      ELSE IF valst.newPrices \/ valst.newTrx
        THEN [heap |-> cl.heap, err |-> Nil, amounts |-> rv.amounts,
              out |-> Append(elems, ValuatedDay("Values", valst.date, cl.addr, << >>,
                                                rv.txs, values, valst.before))]
        ELSE [heap |-> h1, out |-> elems, err |-> Nil, amounts |-> rv.amounts]

\* Valuator.Process on the next element.
ValuatorProcess ==
  /\ variant = "Process"
  /\ valst.status = "running"
  /\ up.pending # << >>
  /\ LET d == Head(up.pending)
         change == valst.date # d.Date
     IN  \E order \in Orders(RevaluedPositions(valst.amounts)) :
           LET dc == IF change THEN DateChange(order)
                     ELSE [heap |-> heap, out |-> << >>, err |-> Nil,
                           amounts |-> valst.amounts]
               st == IF change
                       THEN [valst EXCEPT !.newPrices = FALSE, !.newTrx = FALSE,
                                          !.date = d.Date, !.amounts = dc.amounts,
                                          !.before = dc.heap[valst.values]]
                       ELSE valst
               r == valuateOrReturn(dc.heap[valst.values], st.normalized,
                                    d.Elem.Postings, 1, << >>)
           IN  IF dc.err # Nil
                 THEN /\ valst' = [valst EXCEPT !.status = "failed",
                                                 !.amounts = dc.amounts]
                      /\ heap' = dc.heap
                      /\ sink' = [sink EXCEPT
                                    !.out = @ \o dc.out, !.ret = dc.err,
                                    !.failed = @ \o Failures(<<dc.err>>, valst.date)]
               ELSE IF d.kind = "NormalizedPrices"
                 THEN /\ valst' = [st EXCEPT !.newPrices = TRUE, !.normalized = d.Elem]
                      /\ heap' = dc.heap
                      /\ sink' = [sink EXCEPT !.out = @ \o dc.out]
               ELSE IF d.kind = "Amounts"
                 THEN /\ valst' = [st EXCEPT !.amounts = d.Elem]
                      /\ heap' = dc.heap
                      /\ sink' = [sink EXCEPT !.out = @ \o dc.out]
               ELSE IF r.err # Nil
                 THEN /\ valst' = [st EXCEPT !.newTrx = TRUE, !.status = "failed"]
                      /\ heap' = [dc.heap EXCEPT ![valst.values] = r.values]
                      /\ sink' = [sink EXCEPT
                                    !.out = @ \o dc.out, !.ret = r.err,
                                    !.failed = @ \o Failures(<<r.err>>, d.Date)]
                 ELSE /\ valst' = [st EXCEPT !.newTrx = TRUE]
                      /\ heap' = [dc.heap EXCEPT ![valst.values] = r.values]
                      /\ sink' = [sink EXCEPT
                                    !.out = @ \o dc.out \o
                                      <<[d EXCEPT !.Elem.Postings = r.postings]>>]
  /\ up' = [up EXCEPT !.pending = Tail(@)]
  /\ UNCHANGED valOtherVars

\* Valuator.Finalize, after the last element.
ValuatorFinalize ==
  /\ variant = "Process"
  /\ valst.status = "running"
  /\ up.pending = << >>
  /\ \E order \in Orders(RevaluedPositions(valst.amounts)) :
       LET dc == DateChange(order)
       IN  /\ valst' = [valst EXCEPT
                          !.amounts = dc.amounts,
                          !.status = IF dc.err # Nil THEN "failed" ELSE "returned"]
           /\ heap' = dc.heap
           /\ sink' = [sink EXCEPT
                         !.out = @ \o dc.out, !.ret = dc.err,
                         !.failed = IF dc.err # Nil
                                      THEN @ \o Failures(<<dc.err>>, valst.date) ELSE @]
  /\ UNCHANGED <<valOtherVars, up>>

NextVal ==
  \/ \E price \in {0} \cup Rates, pss \in DayPostings : ValuatorProcessStream(price, pss)
  \/ \E price \in {0} \cup Rates, pss \in DayPostings : ValuatorProcess2(price, pss)
  \/ ValuatorInputClosed
  \/ \E price \in {0} \cup Rates, pss \in DayPostings : UpstreamDay(price, pss)
  \/ ValuatorProcess
  \/ ValuatorFinalize

SpecVal == InitVal /\ [][NextVal]_vars

(***************************************************************************)
(* Properties of the Valuator.                                             *)
(***************************************************************************)
\* The indexes of the days and snapshots of values passed on so far.
ValuatedDays == {i \in DOMAIN sink.out : sink.out[i].kind \in {"Day", "Values"}}

\* C16: the Values map attached to a day that the valuator has passed on is
\* never changed by the processing of a later day.
EmittedValuesKept ==
  [][\A i \in ValuatedDays :
       heap'[sink.out[i].Values] = heap[sink.out[i].Values]]_vars

\* Two days were passed on with different, nonempty Values.
EmittedValuesKeptWitness ==
  \E i, j \in ValuatedDays :
    /\ i < j
    /\ DOMAIN heap[sink.out[i].Values] # {}
    /\ heap[sink.out[i].Values] # heap[sink.out[j].Values]
    /\ sink.out[i].Values # sink.out[j].Values

\* The transaction that adjusts the value of pos by diff on a date.
Adjustment(date, pos, diff) ==
  [Date |-> date,
   Postings |-> <<Posting(ValuationAccountFor(pos.Account), pos.Account,
                          pos.Commodity, diff, 0)>>]

\* The number of elements of the sequence txs that satisfy Test.
CountOf(txs, Test(_)) == Cardinality({j \in DOMAIN txs : Test(txs[j])})

\* C17: with a valuation commodity, after a day was processed every Assets
\* or Liabilities position of its Amounts in another commodity has the value
\* Valuate gives for its amount at the day's prices, and the difference to
\* the value booked before is booked by exactly one synthesized transaction
\* of that date with a single posting between the valuation account and the
\* account of the position, of the size of the difference.
ValuesFollowPrices ==
  Valuation # Nil =>
    \A i \in ValuatedDays :
      LET e == sink.out[i]
          day == up.hist[e.Date]
      IN  \A pos \in DOMAIN day.Amounts :
            (pos.Commodity # Valuation /\ Type(pos.Account) \in {"Assets", "Liabilities"}) =>
              LET v == Valuate(day.Prices, pos.Commodity, day.Amounts[pos])
                  diff == v.val - Get(e.booked, pos)
                  Debits(t) == t.Postings[1].Debit = pos.Account
                                 /\ t.Postings[1].Commodity = pos.Commodity
              IN  /\ v.err = Nil
                  /\ Get(heap[e.Values], pos) = v.val
                  /\ CountOf(e.synthesized, Debits) = IF diff = 0 THEN 0 ELSE 1
                  /\ \A j \in DOMAIN e.synthesized :
                       Debits(e.synthesized[j]) =>
                         e.synthesized[j] = Adjustment(e.Date, pos, diff)

\* A day was passed on for which the value of a position was adjusted after
\* a change of the price, in an amount that differs from the new value.
ValuesFollowPricesWitness ==
  /\ Valuation # Nil
  /\ \E i \in ValuatedDays :
       LET e == sink.out[i]
       IN  /\ e.Date >= 2
           /\ e.synthesized # << >>
           /\ LET p == e.synthesized[1].Postings[1]
                  pos == CommodityAccount(p.Debit, p.Commodity)
              IN  /\ Get(e.booked, pos) # 0
                  /\ heap[e.Values][pos] # p.Amount

\* The synthesized transactions passed on so far, within days or as elements.
Synthesized ==
  UNION {{sink.out[i].synthesized[j] : j \in DOMAIN sink.out[i].synthesized} :
           i \in ValuatedDays}
  \cup {sink.out[i].Elem : i \in {k \in DOMAIN sink.out :
          /\ sink.out[k].kind = "Transaction"
          /\ sink.out[k].Elem.Postings[1].Credit
               \in {ValuationAccountFor(a) : a \in Account}}}

\* C18: a valuation transaction is synthesized for a position only if its
\* account is of type Assets or Liabilities, its commodity is not the
\* valuation commodity and the difference is not zero.
OnlyAssetsAndLiabilitiesRevalued ==
  \A t \in Synthesized :
    /\ Len(t.Postings) = 1
    /\ Type(t.Postings[1].Debit) \in {"Assets", "Liabilities"}
    /\ t.Postings[1].Commodity # Valuation
    /\ t.Postings[1].Amount # 0

\* A valuation transaction was synthesized on a day at which an Expenses
\* account holds a position in the priced commodity, too.
OnlyAssetsAndLiabilitiesRevaluedWitness ==
  /\ Synthesized # {}
  /\ \E i \in ValuatedDays :
       /\ sink.out[i].synthesized # << >>
       /\ Get(up.hist[sink.out[i].Date].Amounts, CommodityAccount(Food, Priced)) # 0
       /\ Get(heap[sink.out[i].Values], CommodityAccount(Food, Priced))
            # Valuate(up.hist[sink.out[i].Date].Prices, Priced,
                      Get(up.hist[sink.out[i].Date].Amounts,
                          CommodityAccount(Food, Priced))).val

\* The amount a posting has to be booked with.
ExpectedAmount(n, p) ==
  IF Valuation # Nil /\ Valuation # p.Commodity
    THEN Valuate(n, p.Commodity, p.Amount).val
    ELSE p.Amount

\* The values after posting j.. of transaction i.. were booked with the
\* expected amounts.
RECURSIVE ExpectedValues(_, _, _, _, _)
ExpectedValues(values, n, txs, i, j) ==
  IF i > Len(txs) THEN values
  ELSE IF j > Len(txs[i].Postings) THEN ExpectedValues(values, n, txs, i + 1, 1)
  ELSE LET p == txs[i].Postings[j]
       IN  ExpectedValues(AmountsBook(values, p.Credit, p.Debit, ExpectedAmount(n, p),
                                      p.Commodity),
                          n, txs, i, j + 1)

\* C19: a posting is booked into Values with Valuate(commodity, quantity)
\* iff a valuation commodity is configured and is not the posting's
\* commodity; otherwise it is booked with its original amount.
PostingsBookedValuated ==
  \A i \in ValuatedDays :
    LET e == sink.out[i]
        day == up.hist[e.Date]
    IN  /\ e.booked = ExpectedValues(e.before, day.Prices, day.Transactions, 1, 1)
        /\ e.kind = "Day" =>
             \A k \in DOMAIN day.Transactions :
               \A j \in DOMAIN day.Transactions[k].Postings :
                 e.Transactions[k].Postings[j].Amount
                   = ExpectedAmount(day.Prices, day.Transactions[k].Postings[j])

\* A day was passed on with a valuation commodity, in which one posting was
\* booked with its value at a price other than 1 and one with its amount.
PostingsBookedValuatedWitness ==
  /\ Valuation # Nil
  /\ \E i \in ValuatedDays :
       LET day == up.hist[sink.out[i].Date]
       IN  /\ sink.out[i].booked # sink.out[i].before
           /\ \E k \in DOMAIN day.Transactions :
                /\ \E j \in DOMAIN day.Transactions[k].Postings :
                     LET p == day.Transactions[k].Postings[j]
                     IN  p.Commodity = Priced /\ ExpectedAmount(day.Prices, p) # p.Amount
                /\ \E j \in DOMAIN day.Transactions[k].Postings :
                     day.Transactions[k].Postings[j].Commodity = Valuation

\* The failed valuations that reached the caller or the error channel.
Reported ==
  {sink.errs[i] : i \in DOMAIN sink.errs}
  \cup {f \in {sink.failed[i] : i \in DOMAIN sink.failed} : f.Commodity = sink.ret}

\* C20: whenever Valuate finds no price for a posting or for a position, the
\* valuator reports an error naming the commodity to its caller or on its
\* error channel, in every variant; it neither panics nor drops the failure.
ValuationFailureReported ==
  /\ valst.status # "panicked"
  /\ \A i \in DOMAIN sink.failed : sink.failed[i] \in Reported

(***************************************************************************)
(* One pipeline stage on its own: the goroutine started by                 *)
(* ASTBuilder.BuildAST, ASTExpander.ExpandAndFilterAST,                    *)
(* Valuator.ProcessStream or Differ.ProcessStream (diff mode), its result  *)
(* and error channel, an upstream that sends, stays silent or closes, two  *)
(* consumers that may stop receiving, and the shared context.              *)

\* C35: the Amounts of a day are after the valuator what the stages before it
\* handed on, whether or not adjustment transactions were synthesized for the
\* day: the adjustments are booked into the Values only.
AmountsUntouched ==
  /\ variant \in {"ProcessStream", "Process2"} =>
       /\ Len(sink.amounts) = Len(up.hist)
       /\ \A i \in DOMAIN sink.amounts : sink.amounts[i] = up.hist[i].Amounts
  /\ variant = "Process" =>
       \/ valst.amounts = EmptyMap
       \/ \E i \in DOMAIN up.hist : valst.amounts = up.hist[i].Amounts

\* A streaming valuator has passed on a day with a synthesized adjustment of
\* a position of its Amounts; the Values changed by it, the Amounts did not.
AmountsUntouchedWitness ==
  /\ variant = "ProcessStream"
  /\ \E i \in DOMAIN sink.out :
       LET d == sink.out[i]
       IN  /\ d.kind = "Day"
           /\ d.synthesized # << >>
           /\ heap[d.Values] # d.booked
           /\ sink.amounts[d.Date] = up.hist[d.Date].Amounts
           /\ sink.amounts[d.Date] # EmptyMap


\* The snapshots of the values among what Valuator.Process has passed on.
ValuesOf(date) ==
  {i \in DOMAIN sink.out : sink.out[i].kind = "Values" /\ sink.out[i].Date = date}

\* The elements of the date had a transaction or new prices among them.
Active(date) == up.hist[date].newPrice \/ up.hist[date].Transactions # << >>

\* The dates Valuator.Process has left behind, all once Finalize has returned.
Concluded ==
  {date \in 1..up.date : valst.status = "returned" \/ date < valst.date}

\* C36: the step-wise Valuator passes on, for a date with a transaction or new
\* prices, one snapshot of the values carrying that date, after every element
\* and adjustment of that date and before any element of a later date; for
\* a date with neither it passes on none; Finalize passes on the snapshot of
\* the last date.
OneSnapshotPerDate ==
  variant = "Process" =>
    /\ \A i, j \in DOMAIN sink.out : i < j => sink.out[i].Date <= sink.out[j].Date
    /\ \A i, j \in DOMAIN sink.out :
         (sink.out[i].kind = "Values" /\ sink.out[j].Date = sink.out[i].Date) => j <= i
    /\ \A date \in 1..up.date :
         /\ ~Active(date) => ValuesOf(date) = {}
         /\ (valst.status \in {"running", "returned"} /\ date \in Concluded
               /\ Active(date)) => Cardinality(ValuesOf(date)) = 1
    /\ (valst.status = "returned" /\ up.date > 0 /\ Active(up.date)) =>
         /\ sink.out # << >>
         /\ sink.out[Len(sink.out)].kind = "Values"
         /\ sink.out[Len(sink.out)].Date = up.date

\* Finalize has returned after three dates: the first had a transaction, the
\* second nothing, the third new prices and an adjustment; two snapshots were
\* passed on, the last by Finalize after the adjustment.
OneSnapshotPerDateWitness ==
  /\ variant = "Process"
  /\ valst.status = "returned"
  /\ up.date = 3
  /\ up.hist[1].Transactions # << >>
  /\ ~Active(2)
  /\ up.hist[3].newPrice /\ up.hist[3].Transactions = << >>
  /\ Cardinality(ValuesOf(1)) = 1
  /\ ValuesOf(2) = {}
  /\ ValuesOf(3) = {Len(sink.out)}
  /\ Len(sink.out) > 1
  /\ sink.out[Len(sink.out) - 1].kind = "Transaction"
  /\ sink.out[Len(sink.out) - 1].Date = 3

(***************************************************************************)
MaxItems == 2

MaxErrs == 2

StageKinds ==
  {"BuildAST", "ExpandAndFilterAST", "Valuator.ProcessStream", "Differ.ProcessStream"}

\* resCh := make(chan *val.Day, 100) in the Valuator and the Differ, an
\* unbuffered channel in the stages on ASTs.
Cap(kind) ==
  IF kind \in {"Valuator.ProcessStream", "Differ.ProcessStream"} THEN ChanCap ELSE 0

\* Variant: only the result channel is closed on return.
DeferredResOnly(kind) == <<"resCh">>

\* defer close(resCh); defer close(errCh): run in reverse order on return.
Deferred(kind) == <<"errCh", "resCh">>

\* Variant: the send on the error channel does not look at the context.
ObservesDoneNotOnErr(pc) == pc \in {"pop", "pushres"}

\* cpr.Pop and cpr.Push select on ctx.Done() next to the channel operation.
ObservesDone(pc) == pc \in {"pop", "pusherr", "pushres"}

\* What an item makes the stage do: the number of errors it sends for it
\* and whether it panics on it.
Items(kind) ==
  CASE kind = "BuildAST" ->
         \* an unknown directive is reported, all others are added
         {[errs |-> e, panics |-> FALSE] : e \in 0..1}
    [] kind = "ExpandAndFilterAST" ->
         \* an add-on of unknown kind makes expandTransaction panic
         {[errs |-> 0, panics |-> b] : b \in BOOLEAN}
    [] kind = "Valuator.ProcessStream" ->
         \* failed postings are reported, a failed position panics
         {[errs |-> e, panics |-> b] : e \in 0..MaxErrs, b \in BOOLEAN}
    [] kind = "Differ.ProcessStream" ->
         {[errs |-> 0, panics |-> FALSE]}

\* All variables of the other parts, but the context, at their initial values.
OthersIdle ==
  /\ bal = New
  /\ ret = [op |-> "New", arg |-> Nil, err |-> Nil]
  /\ nops = 0
  /\ closed = {}
  /\ filter = [Accounts |-> Account, Commodities |-> Commodity]
  /\ received = << >>
  /\ steps = EmptyMap
  /\ phase = "adding"
  /\ days = << >>
  /\ trace = << >>
  /\ ast = EmptyMap
  /\ emitted = << >>
  /\ variant = "ProcessStream"
  /\ Diff = TRUE
  /\ source = [pc |-> "push", i |-> 1]
  /\ valuator = [pc |-> "pop", day |-> NoDay, values |-> 0]
  /\ differ = [pc |-> "pop", day |-> NoDay, res |-> NoDay, prev |-> 0]
  /\ chans = [vRes |-> << >>, dRes |-> << >>]
  /\ closedCh = {}
  /\ hist = [vIn |-> << >>, dIn |-> << >>, out |-> << >>, errs |-> << >>]
  /\ HeapIdle
  /\ ValuatorIdle

InitStage ==
  /\ OthersIdle
  /\ LoaderIdle
  /\ RunnerIdle
  /\ ExpanderIdle
  /\ BuilderIdle
  /\ TextIdle
  /\ cancelled = FALSE
  /\ \E kind \in StageKinds :
       stage = [kind |-> kind, pc |-> "pop", n |-> 0, errs |-> 0, panics |-> FALSE,
                final |-> FALSE, exit |-> Nil, defers |-> << >>,
                closes |-> [resCh |-> 0, errCh |-> 0], late |-> FALSE, buf |-> 0,
                reported |-> 0, faulty |-> 0, emits |-> 0,
                inClosed |-> FALSE, receiving |-> {"resCh", "errCh"}]

stageOtherVars ==
  <<balVars, ledgerVars, sorterVars, variant, Diff, source, valuator, differ, chans,
    closedCh, hist, heapVars, valVars, loader, runner, expander, builder, textVars>>

\* The goroutine returns, or panics: its deferred calls are run next.
Return(st, exit, panicking) ==
  [st EXCEPT !.pc = "return", !.exit = exit, !.panics = panicking,
             !.defers = Deferred(st.kind)]

\* Variant: BuildAST returns after it has reported an unknown directive.
AfterErrorsReturns(st) ==
  CASE st.panics -> Return(st, "panic", TRUE)
    [] st.kind = "BuildAST" -> Return(st, "error", FALSE)
    [] OTHER -> [st EXCEPT !.pc = "pushres"]

\* The stage after the errors of its item were sent, or if it has none.
AfterErrors(st) ==
  CASE st.panics -> Return(st, "panic", TRUE)
    [] st.kind = "BuildAST" -> [st EXCEPT !.pc = "pop"]
    [] OTHER -> [st EXCEPT !.pc = "pushres"]

\* The owner of the context cancels it.
StageCancel ==
  /\ ~cancelled
  /\ cancelled' = TRUE
  /\ UNCHANGED <<stage, stageOtherVars>>

\* cpr.Pop receives an item and the stage processes it up to its next
\* channel operation.
StageReceive(item) ==
  /\ stage.pc = "pop"
  /\ ~stage.inClosed
  /\ stage.n < MaxItems
  /\ stage' = IF item.errs > 0
                THEN [stage EXCEPT !.n = @ + 1, !.pc = "pusherr", !.errs = item.errs,
                                   !.panics = item.panics, !.faulty = @ + 1]
                ELSE AfterErrors([stage EXCEPT !.n = @ + 1, !.panics = item.panics])
  /\ UNCHANGED <<cancelled, stageOtherVars>>

\* The upstream closes the input channel.
UpstreamClose ==
  /\ ~stage.inClosed
  /\ stage' = [stage EXCEPT !.inClosed = TRUE]
  /\ UNCHANGED <<cancelled, stageOtherVars>>

\* cpr.Pop finds the input closed: BuildAST sends its AST and returns, the
\* other stages return.
StagePopClosed ==
  /\ stage.pc = "pop"
  /\ stage.inClosed
  /\ stage' = IF stage.kind = "BuildAST"
                THEN [stage EXCEPT !.pc = "pushres", !.final = TRUE]
                ELSE Return(stage, "closed", FALSE)
  /\ UNCHANGED <<cancelled, stageOtherVars>>

\* cpr.Pop or cpr.Push takes the ctx.Done() branch.
StageDone ==
  /\ cancelled
  /\ stage.pc \in {"pop", "pusherr", "pushres"}
  /\ ObservesDone(stage.pc)
  /\ stage' = Return(stage, IF stage.pc = "pop" THEN "cancelled in receive"
                                               ELSE "cancelled in send", FALSE)
  /\ UNCHANGED <<cancelled, stageOtherVars>>

\* cpr.Push hands one error to the consumer of the error channel.
StageSendErr ==
  /\ stage.pc = "pusherr"
  /\ "errCh" \in stage.receiving
  /\ LET st == [stage EXCEPT !.errs = @ - 1, !.reported = @ + 1,
                             !.late = @ \/ stage.closes.errCh > 0]
     IN  stage' = IF st.errs > 0 THEN st ELSE AfterErrors(st)
  /\ UNCHANGED <<cancelled, stageOtherVars>>

\* cpr.Push puts the result into the result channel, or hands it to the
\* consumer if the channel has no buffer.
StageSendRes ==
  /\ stage.pc = "pushres"
  /\ IF Cap(stage.kind) = 0 THEN "resCh" \in stage.receiving
                            ELSE stage.buf < Cap(stage.kind)
  /\ LET st == [stage EXCEPT !.late = @ \/ stage.closes.resCh > 0,
                             !.emits = @ + 1,
                             !.buf = IF Cap(stage.kind) = 0 THEN 0 ELSE @ + 1]
     IN  stage' = IF stage.final THEN Return(st, "closed", FALSE)
                                 ELSE [st EXCEPT !.pc = "pop"]
  /\ UNCHANGED <<cancelled, stageOtherVars>>

\* The next deferred close is run; after the last one the goroutine has
\* ended, or the panic ends the process.
StageRunDeferred ==
  /\ stage.pc = "return"
  /\ IF stage.defers = << >>
       THEN stage' = [stage EXCEPT !.pc = IF stage.panics THEN "crashed" ELSE "done"]
       ELSE stage' = [stage EXCEPT !.defers = Tail(@),
                                   !.closes[Head(stage.defers)] = @ + 1]
  /\ UNCHANGED <<cancelled, stageOtherVars>>

\* The consumer of the result channel takes a result out of its buffer.
ConsumerTake ==
  /\ "resCh" \in stage.receiving
  /\ stage.buf > 0
  /\ stage' = [stage EXCEPT !.buf = @ - 1]
  /\ UNCHANGED <<cancelled, stageOtherVars>>

\* A consumer stops receiving from its channel.
ConsumerStops(ch) ==
  /\ ch \in stage.receiving
  /\ stage' = [stage EXCEPT !.receiving = @ \ {ch}]
  /\ UNCHANGED <<cancelled, stageOtherVars>>

\* The steps the goroutine of the stage can take without anybody else.
StageAlone ==
  \/ StageDone
  \/ StageRunDeferred

NextStage ==
  \/ StageCancel
  \/ \E kind \in StageKinds : \E item \in Items(kind) :
       stage.kind = kind /\ StageReceive(item)
  \/ UpstreamClose
  \/ StagePopClosed
  \/ StageDone
  \/ StageSendErr
  \/ StageSendRes
  \/ StageRunDeferred
  \/ ConsumerTake
  \/ \E ch \in {"resCh", "errCh"} : ConsumerStops(ch)

SpecStage == InitStage /\ [][NextStage]_vars

\* A goroutine that can take a step is scheduled eventually.
SpecStageFair == SpecStage /\ WF_vars(StageAlone)

\* The stage has ended, by returning or by a panic.
StageEnded == stage.pc \in {"done", "crashed"}

\* C21: every stage closes the result channel and the error channel it
\* created exactly once on every exit path (input closed, cancellation seen
\* while receiving, cancellation seen while sending), and never sends on a
\* channel it has closed.
ChannelsClosedOnce ==
  /\ stage.closes.resCh <= 1
  /\ stage.closes.errCh <= 1
  /\ ~stage.late
  /\ StageEnded => stage.closes = [resCh |-> 1, errCh |-> 1]

\* A stage has ended after it saw the cancellation while sending an error,
\* with results still in its result channel.
ChannelsClosedOnceWitness ==
  /\ stage.pc = "done"
  /\ stage.exit = "cancelled in send"
  /\ stage.errs > 0
  /\ stage.buf > 0

SawCancellation == stage.exit \in {"cancelled in receive", "cancelled in send"}

\* C33: BuildAST emits at most one AST and only after its input channel was
\* closed; it emits none if it saw the cancellation, and exactly one if it
\* ended otherwise; every unknown directive gives one error on the error
\* channel and does not keep the AST from being emitted.
BuildASTEmitsOnce ==
  stage.kind = "BuildAST" =>
    /\ stage.emits <= 1
    /\ stage.emits = 1 => stage.inClosed
    /\ SawCancellation => stage.emits = 0
    /\ (StageEnded /\ ~SawCancellation) => stage.emits = 1
    /\ stage.reported + stage.errs = stage.faulty
    /\ (StageEnded /\ ~SawCancellation) => stage.reported = stage.faulty

\* BuildAST has reported an unknown directive, received a further directive,
\* emitted its AST after the input was closed and ended.
BuildASTEmitsOnceWitness ==
  /\ stage.kind = "BuildAST"
  /\ stage.pc = "done"
  /\ stage.n = 2
  /\ stage.faulty = 1
  /\ stage.reported = 1
  /\ stage.emits = 1
  /\ stage.exit = "closed"

(***************************************************************************)
(* JournalSource: Load receives from the parser's result and error channel *)
(* until both are closed and fills the journal; Source, with AutoLoad,     *)
(* loads first and then pushes the journal's days.                         *)
(***************************************************************************)
\* What the parser sends on its result channel: directives of the kinds
\* Load knows, transactions with an accrual, and values of another type.
LoadItems ==
  {[kind |-> k, Date |-> d, Accrual |-> FALSE] : k \in {"Open", "Transaction", "Unknown"},
                                                  d \in Dates}
    \cup {[kind |-> "Transaction", Date |-> d, Accrual |-> TRUE] : d \in Dates}

\* t.Accrual.Expand(t): one transaction per period, none with an accrual.
AccrualExpand(t) ==
  [i \in 1..2 |-> [kind |-> "Transaction", Date |-> t.Date + i - 1, Accrual |-> FALSE]]

\* journal.Add...: the directive is appended to the day of its date.
JournalAdd(j, d) ==
  [x \in (DOMAIN j) \cup {d.Date} |->
     IF x = d.Date THEN Append(IF x \in DOMAIN j THEN j[x] ELSE << >>, d) ELSE j[x]]

RECURSIVE JournalAddAll(_, _, _)
JournalAddAll(j, ds, i) ==
  IF i > Len(ds) THEN j ELSE JournalAddAll(JournalAdd(j, ds[i]), ds, i + 1)

\* The dates of S in ascending order.
RECURSIVE Ascending(_)
Ascending(S) ==
  IF S = {} THEN << >>
  ELSE LET m == CHOOSE x \in S : \A y \in S : x <= y
       IN  <<m>> \o Ascending(S \ {m})

\* journal.SortedDays
JournalSortedDays(j) ==
  LET ds == Ascending(DOMAIN j)
  IN  [i \in 1..Len(ds) |-> [Date |-> ds[i], Directives |-> j[ds[i]]]]

\* Variant: Load returns at the first error.
OnErrorReturn(ld, err) == [ld EXCEPT !.errs = Append(@, err), !.pc = "returned"]

\* errs = multierr.Append(errs, err); continue
OnError(ld, err) == [ld EXCEPT !.errs = Append(@, err)]

\* The switch of Load on the type of the directive.
LoadDirective(ld, d, n) ==
  CASE d.kind = "Unknown" -> OnError(ld, [unknown |-> n])
    [] d.kind = "Transaction" /\ d.Accrual ->
         [ld EXCEPT !.journal = JournalAddAll(@, AccrualExpand(d), 1)]
    [] OTHER -> [ld EXCEPT !.journal = JournalAdd(@, d)]

InitLoad ==
  /\ OthersIdle
  /\ StageIdle
  /\ RunnerIdle
  /\ ExpanderIdle
  /\ BuilderIdle
  /\ TextIdle
  /\ cancelled = FALSE
  /\ \E auto \in BOOLEAN :
       loader = [pc |-> "get", AutoLoad |-> auto, open |-> {"ch", "errCh"},
                 sent |-> << >>, errs |-> << >>, journal |-> EmptyMap,
                 i |-> 1, out |-> << >>, ret |-> << >>]

loadOtherVars ==
  <<balVars, ledgerVars, sorterVars, variant, Diff, source, valuator, differ, chans,
    closedCh, hist, heapVars, valVars, stage, runner, expander, builder, textVars>>

\* cpr.Get returns a directive the parser has sent on its result channel.
LoadGetDirective(d) ==
  /\ loader.pc = "get"
  /\ "ch" \in loader.open
  /\ Len(loader.sent) < MaxItems
  /\ loader' = LoadDirective([loader EXCEPT !.sent = Append(@, d)], d,
                             Len(loader.sent) + 1)
  /\ UNCHANGED <<cancelled, loadOtherVars>>

\* cpr.Get returns an error the parser has sent on its error channel.
LoadGetError ==
  /\ loader.pc = "get"
  /\ "errCh" \in loader.open
  /\ Len(loader.sent) < MaxItems
  /\ LET n == Len(loader.sent) + 1
     IN  loader' = OnError([loader EXCEPT !.sent = Append(@, [kind |-> "Error"])],
                           [parser |-> n])
  /\ UNCHANGED <<cancelled, loadOtherVars>>

\* The parser closes one of its channels.
ParserClose(ch) ==
  /\ loader.pc = "get"
  /\ ch \in loader.open
  /\ loader' = [loader EXCEPT !.open = @ \ {ch}]
  /\ UNCHANGED <<cancelled, loadOtherVars>>

\* cpr.Get finds both channels closed: Load leaves its loop and returns
\* errs, the empty sequence standing for nil.  With AutoLoad it was called by Source, which returns the error or
\* goes on to push the days.
LoadReturn ==
  /\ loader.pc = "get"
  /\ loader.open = {}
  /\ loader' = [loader EXCEPT !.pc = "returned", !.ret = loader.errs]
  /\ UNCHANGED <<cancelled, loadOtherVars>>

\* Source is called, or goes on after its call of Load.
SourceStart ==
  /\ loader.pc = "returned"
  /\ loader' = IF loader.AutoLoad /\ loader.ret # << >>
                 THEN [loader EXCEPT !.pc = "done"]
                 ELSE [loader EXCEPT !.pc = "pushing", !.ret = << >>]
  /\ UNCHANGED <<cancelled, loadOtherVars>>

\* cpr.Push hands the next day to the consumer.
SourcePushDay ==
  /\ loader.pc = "pushing"
  /\ LET ds == JournalSortedDays(loader.journal)
     IN  IF loader.i > Len(ds)
           THEN loader' = [loader EXCEPT !.pc = "done"]
           ELSE loader' = [loader EXCEPT !.i = @ + 1, !.out = Append(@, ds[loader.i])]
  /\ UNCHANGED <<cancelled, loadOtherVars>>

\* cpr.Push sees the context done: Source returns its error.
SourcePushCancelled ==
  /\ loader.pc = "pushing"
  /\ loader.i <= Len(JournalSortedDays(loader.journal))
  /\ cancelled
  /\ loader' = [loader EXCEPT !.pc = "done", !.ret = <<[context |-> "canceled"]>>]
  /\ UNCHANGED <<cancelled, loadOtherVars>>

LoadCancel ==
  /\ ~cancelled
  /\ loader.pc = "pushing"
  /\ cancelled' = TRUE
  /\ UNCHANGED <<loader, loadOtherVars>>

NextLoad ==
  \/ \E d \in LoadItems : LoadGetDirective(d)
  \/ LoadGetError
  \/ \E ch \in {"ch", "errCh"} : ParserClose(ch)
  \/ LoadReturn
  \/ SourceStart
  \/ SourcePushDay
  \/ SourcePushCancelled
  \/ LoadCancel

SpecLoad == InitLoad /\ [][NextLoad]_vars

\* The errors Load has to report for what the parser sent: the parser's
\* errors and one for every directive of unknown type, in order.
RECURSIVE ExpectedErrors(_, _)
ExpectedErrors(sent, i) ==
  IF i > Len(sent) THEN << >>
  ELSE (CASE sent[i].kind = "Error" -> <<[parser |-> i]>>
          [] sent[i].kind = "Unknown" -> <<[unknown |-> i]>>
          [] OTHER -> << >>) \o ExpectedErrors(sent, i + 1)

\* Load has returned.
Loaded == loader.pc \in {"returned", "pushing", "done"}

\* C23: Load returns only when both channels of the parser are closed, with
\* an error that holds every error the parser delivered and one error for
\* every unrecognized directive, and with nil (no error) iff there was none.
LoadAggregatesErrors ==
  Loaded =>
    /\ loader.open = {}
    /\ loader.errs = ExpectedErrors(loader.sent, 1)
    /\ loader.pc = "returned" => loader.ret = ExpectedErrors(loader.sent, 1)

\* Load has returned two errors, the first for an unknown directive and the
\* second from the parser.
LoadAggregatesErrorsWitness ==
  /\ loader.pc = "returned"
  /\ Len(loader.sent) = 2
  /\ loader.ret = <<[unknown |-> 1], [parser |-> 2]>>

(***************************************************************************)
(* The balance command.  runner.execute connects the stages, merges their  *)
(* error channels with cpr.Demultiplex and calls cpr.Get once on the       *)
(* report channel and the merged error channel; runner.execute3 runs the   *)
(* stages in an errgroup and waits for it.                                 *)
(***************************************************************************)
\* The stages that report errors while they go on: BuildAST on errCh1 for a
\* directive of unknown type, PASTBuilder.ProcessAST on errCh3 for a failed
\* booking, Valuator.ProcessStream on errCh5 for a posting without a price.
ReportingStages == <<"BuildAST", "PASTBuilder", "Valuator">>

InitRunner ==
  /\ OthersIdle
  /\ StageIdle
  /\ LoaderIdle
  /\ ExpanderIdle
  /\ BuilderIdle
  /\ TextIdle
  /\ cancelled = FALSE
  /\ \E v \in {"execute", "execute3"} :
       runner = [variant |-> v, pc |-> "waiting", cur |-> 1, sent |-> << >>,
                 relay |-> [i \in DOMAIN ReportingStages |-> 0],
                 report |-> "none", got |-> Nil, outcome |-> Nil]

runnerOtherVars ==
  <<balVars, ledgerVars, sorterVars, variant, Diff, cancelled, source, valuator, differ,
    chans, closedCh, hist, heapVars, valVars, stage, loader, expander, builder, textVars>>

\* The running stage sends an error on its error channel: the goroutine of
\* the fan-in that reads this channel receives it, and the stage goes on.
RunnerStageReports ==
  /\ runner.variant = "execute"
  /\ runner.cur \in DOMAIN ReportingStages
  /\ runner.relay[runner.cur] = 0
  /\ Len(runner.sent) < MaxErrs
  /\ runner' = [runner EXCEPT !.sent = Append(@, runner.cur), !.relay[runner.cur] = 1]
  /\ UNCHANGED runnerOtherVars

\* A stage in the errgroup returns an error (Valuator.Process2 for a posting
\* without a price): the group is cancelled and no report is built.
RunnerStageFails ==
  /\ runner.variant = "execute3"
  /\ runner.cur \in DOMAIN ReportingStages
  /\ runner' = [runner EXCEPT !.sent = Append(@, runner.cur),
                              !.cur = Len(ReportingStages) + 2]
  /\ UNCHANGED runnerOtherVars

\* The running stage has passed on its last result and ends.
RunnerStageEnds ==
  /\ runner.cur \in DOMAIN ReportingStages
  /\ runner' = [runner EXCEPT !.cur = @ + 1]
  /\ UNCHANGED runnerOtherVars

\* The report builder has received everything and offers the report on the
\* report channel (execute), or has stored it in its Result (execute3).
RunnerReportBuilt ==
  /\ runner.cur = Len(ReportingStages) + 1
  /\ runner.report = "none"
  /\ runner' = [runner EXCEPT !.report = "ready", !.cur = @ + 1]
  /\ UNCHANGED runnerOtherVars

\* cpr.Get returns an error that a goroutine of the fan-in forwards.
RunnerGetError(i) ==
  /\ runner.variant = "execute"
  /\ runner.pc = "waiting"
  /\ runner.relay[i] = 1
  /\ runner' = [runner EXCEPT !.pc = "got", !.got = "error", !.relay[i] = 0]
  /\ UNCHANGED runnerOtherVars

\* cpr.Get returns the report.
RunnerGetReport ==
  /\ runner.variant = "execute"
  /\ runner.pc = "waiting"
  /\ runner.report = "ready"
  /\ runner' = [runner EXCEPT !.pc = "got", !.got = "report", !.report = "taken"]
  /\ UNCHANGED runnerOtherVars

\* eng.Process returns what the errgroup returns: the first error of a
\* stage, or nil.
RunnerProcessReturns ==
  /\ runner.variant = "execute3"
  /\ runner.pc = "waiting"
  /\ runner.cur = Len(ReportingStages) + 2
  /\ runner' = [runner EXCEPT !.pc = "got",
                              !.got = IF runner.sent = << >> THEN "nil" ELSE "error"]
  /\ UNCHANGED runnerOtherVars

\* execute: if rep == nil || !ok { return "no report was produced" };
\* if err != nil { return err }; render.  execute3: if err != nil { return
\* err }; render.
RunnerDecides ==
  /\ runner.pc = "got"
  /\ runner' = [runner EXCEPT
                  !.pc = "returned",
                  !.outcome = CASE runner.variant = "execute" /\ runner.got # "report"
                                     -> "no report was produced"
                                [] runner.got = "error" -> "error"
                                [] OTHER -> "rendered"]
  /\ UNCHANGED runnerOtherVars

NextRunner ==
  \/ RunnerStageReports
  \/ RunnerStageFails
  \/ RunnerStageEnds
  \/ RunnerReportBuilt
  \/ \E i \in DOMAIN ReportingStages : RunnerGetError(i)
  \/ RunnerGetReport
  \/ RunnerProcessReturns
  \/ RunnerDecides

SpecRunner == InitRunner /\ [][NextRunner]_vars

\* C24: the balance command renders a report only if it received a report
\* and no stage reported an error.
RenderedOnlyOnSuccess ==
  runner.outcome = "rendered" =>
    /\ runner.report \in {"taken", "ready"}
    /\ runner.sent = << >>

\* Source with AutoLoad emits no day when Load returned an error.
SourceEmitsNothingOnError ==
  (loader.pc # "none" /\ loader.AutoLoad /\ ExpectedErrors(loader.sent, 1) # << >>)
    => loader.out = << >>

(***************************************************************************)
(* Batch mode with failures: the results channel of ledger.Builder.Process *)
(* may carry an error or a value of an unknown type, and the ledger built  *)
(* from what was added goes through balance.Builder.Build.                 *)
(***************************************************************************)
FailureKinds == {"error", "unknown"}

FailureItem(kind) == [kind |-> kind, Date |-> 0]

BatchDirectives ==
  {OpenDirective(1, Cash), OpenDirective(2, Cash), CloseDirective(1, Cash),
   TransactionDirective(1, <<Posting(Capital, Cash, "USD", 1, 0)>>),
   TransactionDirective(2, <<Posting(Capital, Cash, "USD", 1, 0)>>),
   AssertionDirective(1, Cash, "USD", 0),
   AssertionDirective(2, Cash, "USD", 1)}

\* The type switch of ledger.Builder.Process on a directive.
AddDirective(f, st, d) ==
  CASE d.kind = "Open" -> AddOpening(f, st, d)
    [] d.kind = "Price" -> AddPrice(f, st, d)
    [] d.kind = "Transaction" -> AddTransaction(f, st, d)
    [] d.kind = "Assertion" -> AddAssertion(f, st, d)
    [] d.kind = "Value" -> AddValue(f, st, d)
    [] d.kind = "Close" -> AddClosing(f, st, d)

\* The iteration of ledger.Builder.Process that receives an error or a value
\* of an unknown type: Process returns an error and receives nothing more.
ReceiveFailure(kind) ==
  /\ phase = "adding"
  /\ Len(received) < MaxDirectives
  /\ received' = Append(received, FailureItem(kind))
  /\ phase' = "failed"
  /\ ret' = [op |-> "Process", arg |-> Nil, err |-> kind]
  /\ UNCHANGED <<bal, nops, closed, filter, steps, days, trace, sorterVars, streamVars,
                 heapVars, valVars, pipeVars>>

NextBatch ==
  \/ \E d \in BatchDirectives : Receive(d)
  \/ \E kind \in FailureKinds : ReceiveFailure(kind)
  \/ LedgerBuild
  \/ BalanceBuild

SpecBatch == Init /\ [][NextBatch]_vars

\* The index of the first error or unknown item of items, 0 without one.
FirstFailure(items) ==
  IF \E k \in DOMAIN items : items[k].kind \in FailureKinds
    THEN CHOOSE k \in DOMAIN items :
           /\ items[k].kind \in FailureKinds
           /\ \A j \in 1..(k - 1) : items[j].kind \notin FailureKinds
    ELSE 0

RECURSIVE AddAll(_, _, _, _)
\* The steps after adding the directives i..Len(items) to st.
AddAll(f, st, items, i) ==
  IF i > Len(items) THEN st
  ELSE AddAll(f, AddDirective(f, st, items[i]), items, i + 1)

\* Every processor on every step, in the order of the loops of Build.
Schedule(l) ==
  [k \in 1..(Len(l) * Len(ppl)) |->
     [Date |-> l[((k - 1) \div Len(ppl)) + 1].Date,
      pr |-> ppl[((k - 1) % Len(ppl)) + 1]]]

RECURSIVE ReplayErrs(_, _, _, _)
\* The errors of the calls tr[i..], made one after the other on balance b.
ReplayErrs(l, tr, i, b) ==
  IF i > Len(tr) THEN << >>
  ELSE LET step == l[CHOOSE k \in DOMAIN l : l[k].Date = tr[i].Date]
           r == Process(tr[i].pr, b, step)
       IN  <<r.err>> \o ReplayErrs(l, tr, i + 1, r.b)

\* C25: in batch mode the first error aborts.  ledger.Builder.Process
\* returns an error at the first error item or unknown item and adds no
\* directive received after it; balance.Builder.Build returns no balances
\* and the error of the first processor that fails, and runs no processor
\* after it, on that step or on a later one.
FirstErrorAborts ==
  /\ LET k == FirstFailure(received)
     IN  IF k > 0
           THEN /\ phase = "failed"
                /\ ret.op = "Process"
                /\ ret.err # Nil
                /\ Len(received) = k
                /\ steps = AddAll(filter, EmptyMap, SubSeq(received, 1, k - 1), 1)
           ELSE /\ phase # "failed"
                /\ steps = AddAll(filter, EmptyMap, received, 1)
  /\ phase = "done" =>
       LET errs == ReplayErrs(days, trace, 1, New)
           sched == Schedule(days)
       IN  /\ Len(trace) <= Len(sched)
           /\ trace = SubSeq(sched, 1, Len(trace))
           /\ \A i \in 1..(Len(trace) - 1) : errs[i] = Nil
           /\ IF ret.err # Nil
                THEN /\ errs[Len(trace)] = ret.err
                     /\ ret.result = << >>
                ELSE /\ trace = sched
                     /\ \A i \in DOMAIN errs : errs[i] = Nil
                     /\ Len(ret.result) = Len(days)

\* A ledger of two days was processed; the TransactionBooker failed on the
\* first day, so no processor ran after it on that day or on the second day,
\* and no balance was returned.
FirstErrorAbortsWitness ==
  /\ phase = "done"
  /\ Len(days) = 2
  /\ Len(days[2].Openings) = 1
  /\ ret.err # Nil
  /\ trace[Len(trace)] = [Date |-> days[1].Date, pr |-> "TransactionBooker"]
  /\ ret.result = << >>

(***************************************************************************)
(* Valuator.ProcessStream after a failed valuation of a posting.           *)
(***************************************************************************)
\* C26: in Valuator.ProcessStream a failed valuation of a posting is pushed
\* to the error channel and does not stop the stream: the day of the failure
\* is emitted with all its transactions, and so is every other day received.
StreamGoesOnAfterFailure ==
  variant = "ProcessStream" =>
    /\ \A i \in DOMAIN sink.errs :
         \E j \in DOMAIN sink.out :
           /\ sink.out[j].Date = sink.errs[i].Date
           /\ Len(sink.out[j].Transactions) >= Len(up.hist[j].Transactions)
    /\ Len(sink.out) = Len(up.hist)

(***************************************************************************)
(* Expanding and filtering stages on transactions held by reference: the   *)
(* parser or the upstream stage hands over a pointer to a transaction, and *)
(* ASTExpander.expandTransaction, Expander.Process, PostingFilter.Process, *)
(* the type switch of ASTBuilder.Source2 or ledger.Builder.AddTransaction  *)
(* works on the object the pointer refers to.                              *)
(***************************************************************************)
MaxReceived == 2

ExpandStages ==
  {"expandTransaction", "Expander.Process", "PostingFilter.Process", "Source2",
   "Builder.AddTransaction"}

\* The add-ons a transaction may carry: none, an accrual, or an add-on of a
\* kind the stages do not know.
AddOnOptions == {<< >>, <<"Accrual">>, <<"Unknown">>}

ExpandPostings ==
  {<<Posting(Capital, Cash, "USD", 1, 0)>>,
   <<Posting(Capital, Cash, "USD", 1, 0), Posting(Capital, Food, "CHF", 1, 0)>>,
   <<Posting(Capital, Food, "CHF", 1, 0)>>}

ExpandItems ==
  {[kind |-> "Transaction", Date |-> 1, Postings |-> ps, AddOns |-> ao] :
     ps \in ExpandPostings, ao \in AddOnOptions}
    \cup {OpenDirective(1, Cash), AssertionDirective(1, Food, "CHF", 0)}

\* acc.Expand(t): one transaction per period under its own date, none of
\* them with an add-on.
ExpandAccrual(t) == [i \in 1..2 |-> [t EXCEPT !.Date = t.Date + i - 1, !.AddOns = << >>]]

\* The stage receives directive d: a transaction is an object of its own,
\* known by its address; recv keeps the directive as it was received.
Received(e, d) ==
  IF d.kind = "Transaction"
    THEN [e EXCEPT !.objs = Append(@, d),
                   !.recv = Append(@, [addr |-> Len(e.objs) + 1, val |-> d])]
    ELSE [e EXCEPT !.recv = Append(@, [addr |-> 0, val |-> d])]

\* a.AddTransaction(t), pr.ast.Add...(t), or the append to the step: the
\* pointer is passed on; val is what it refers to at that moment.
Forward(e, date, addr, d) ==
  [e EXCEPT !.out = Append(@, [Date |-> date, addr |-> addr,
                               val |-> IF addr = 0 THEN d ELSE e.objs[addr]])]

\* next(d) of a Processor: hands the directive to the next stage and reports
\* whether the pipeline is still running.
next(e, date, addr, d) == IF cancelled THEN e ELSE Forward(e, date, addr, d)

\* t.Postings = filtered
SetPostings(e, addr, filtered) == [e EXCEPT !.objs[addr].Postings = filtered]

\* panic(fmt.Sprintf("unknown addon: %#v", acc))
Panic(e) == [e EXCEPT !.pc = "panicked"]

RECURSIVE expandTransaction(_, _)
RECURSIVE expandEach(_, _, _)
RECURSIVE expandAddOns(_, _, _)

\* for _, ts := range acc.Expand(t) { pr.expandTransaction(a, ts) }
expandEach(e, tss, i) ==
  IF i > Len(tss) \/ e.pc = "panicked" THEN e
  ELSE expandEach(expandTransaction([e EXCEPT !.objs = Append(@, tss[i])],
                                    Len(e.objs) + 1),
                  tss, i + 1)

\* for _, addOn := range t.AddOns, from add-on i on.
expandAddOns(e, addr, i) ==
  LET t == e.objs[addr]
  IN  IF i > Len(t.AddOns) \/ e.pc = "panicked" THEN e
      ELSE IF t.AddOns[i] = "Accrual"
        THEN expandAddOns(expandEach(e, ExpandAccrual(t), 1), addr, i + 1)
        ELSE Panic(e)

\* ASTExpander.expandTransaction
expandTransaction(e, addr) ==
  LET t == e.objs[addr]
      filtered == FilterPostings(e.Filter, t.Postings, 1)
  IN  IF e.Expand /\ Len(t.AddOns) > 0 THEN expandAddOns(e, addr, 1)
      ELSE IF Len(filtered) = 0 THEN e
      ELSE IF Len(filtered) < Len(t.Postings)
        THEN LET clone == [e EXCEPT !.objs = Append(@, [t EXCEPT !.Postings = filtered])]
             IN  Forward(clone, t.Date, Len(clone.objs), t)
        ELSE Forward(e, t.Date, addr, t)

RECURSIVE nextEach(_, _, _)
\* for _, ts := range acc.Expand(t) { if !next(...) { return nil } }
nextEach(e, tss, i) ==
  IF i > Len(tss) \/ cancelled THEN e
  ELSE LET e2 == [e EXCEPT !.objs = Append(@, tss[i])]
       IN  nextEach(next(e2, tss[i].Date, Len(e2.objs), tss[i]), tss, i + 1)

\* Expander.Process on the directive received last.
ExpanderProcessOn(e) ==
  LET r == e.recv[Len(e.recv)]
      d == r.val
  IN  IF d.kind = "Transaction" /\ Len(d.AddOns) > 0
        THEN IF d.AddOns[1] = "Accrual" THEN nextEach(e, ExpandAccrual(d), 1)
             ELSE Panic(e)
        ELSE next(e, d.Date, r.addr, d)

\* PostingFilter.Process on the directive received last.
PostingFilterProcessOn(e) ==
  LET r == e.recv[Len(e.recv)]
      d == r.val
  IN  CASE d.kind = "Transaction" ->
             LET filtered == FilterPostings(e.Filter, d.Postings, 1)
                 e2 == IF Len(filtered) < Len(d.Postings)
                         THEN SetPostings(e, r.addr, filtered) ELSE e
             IN  IF Len(filtered) = 0 THEN e ELSE next(e2, d.Date, r.addr, d)
        [] d.kind = "Assertion" ->
             IF ~MatchString(e.Filter.Accounts, d.Account) THEN e
             ELSE IF ~MatchString(e.Filter.Commodities, d.Commodity) THEN e
             ELSE next(e, d.Date, 0, d)
        [] OTHER -> next(e, d.Date, 0, d)

RECURSIVE addEach(_, _, _)
\* for _, ts := range acc.Expand(t) { pr.ast.AddTransaction(ts) }
addEach(e, tss, i) ==
  IF i > Len(tss) THEN e
  ELSE LET e2 == [e EXCEPT !.objs = Append(@, tss[i])]
       IN  addEach(Forward(e2, tss[i].Date, Len(e2.objs), tss[i]), tss, i + 1)

RECURSIVE source2AddOns(_, _, _)
\* for _, addOn := range t.AddOns in Source2, from add-on i on.
source2AddOns(e, addr, i) ==
  LET t == e.objs[addr]
  IN  IF i > Len(t.AddOns) THEN e
      ELSE IF t.AddOns[i] = "Accrual"
        THEN source2AddOns(addEach(e, ExpandAccrual(t), 1), addr, i + 1)
        ELSE Panic(e)

\* The type switch of ASTBuilder.Source2 on the directive received last.
Source2On(e) ==
  LET r == e.recv[Len(e.recv)]
      d == r.val
  IN  CASE d.kind = "Transaction" ->
             LET filtered == FilterPostings(e.Filter, d.Postings, 1)
                 e2 == IF Len(filtered) < Len(d.Postings)
                         THEN SetPostings(e, r.addr, filtered) ELSE e
             IN  IF Len(filtered) = 0 THEN e
                 ELSE IF Len(d.AddOns) > 0 THEN source2AddOns(e2, r.addr, 1)
                 ELSE Forward(e2, d.Date, r.addr, d)
        [] d.kind = "Assertion" ->
             IF ~MatchString(e.Filter.Accounts, d.Account) THEN e
             ELSE IF ~MatchString(e.Filter.Commodities, d.Commodity) THEN e
             ELSE Forward(e, d.Date, 0, d)
        [] OTHER -> Forward(e, d.Date, 0, d)

\* ledger.Builder.AddTransaction on the transaction received last.
AddTransactionOn(e) ==
  LET r == e.recv[Len(e.recv)]
      filtered == FilterPostings(e.Filter, r.val.Postings, 1)
  IN  IF Len(filtered) > 0
        THEN Forward(SetPostings(e, r.addr, filtered), r.val.Date, r.addr, r.val)
        ELSE e

InitExpand ==
  /\ OthersIdle
  /\ StageIdle
  /\ LoaderIdle
  /\ RunnerIdle
  /\ BuilderIdle
  /\ TextIdle
  /\ cancelled = FALSE
  /\ \E st \in ExpandStages, f \in FilterOptions, x \in BOOLEAN :
       /\ (st # "expandTransaction" => x)
       /\ expander = [pc |-> "running", stage |-> st, Filter |-> f, Expand |-> x,
                      objs |-> << >>, recv |-> << >>, out |-> << >>]

expandOtherVars ==
  <<balVars, ledgerVars, sorterVars, variant, Diff, source, valuator, differ,
    chans, closedCh, hist, heapVars, valVars, stage, loader, runner, builder, textVars>>

Receives(st) ==
  /\ expander.stage = st
  /\ expander.pc = "running"
  /\ Len(expander.recv) < MaxReceived

\* ASTExpander.process calls expandTransaction on a transaction of the AST.
ExpandTransaction(t) ==
  /\ Receives("expandTransaction")
  /\ t.kind = "Transaction"
  /\ LET e == Received(expander, t)
     IN  expander' = expandTransaction(e, Len(e.objs))
  /\ UNCHANGED <<expandOtherVars, cancelled>>

\* Expander.Process
ExpanderProcess(d) ==
  /\ Receives("Expander.Process")
  /\ expander' = ExpanderProcessOn(Received(expander, d))
  /\ UNCHANGED <<expandOtherVars, cancelled>>

\* PostingFilter.Process
PostingFilterProcess(d) ==
  /\ Receives("PostingFilter.Process")
  /\ expander' = PostingFilterProcessOn(Received(expander, d))
  /\ UNCHANGED <<expandOtherVars, cancelled>>

\* One iteration of the loop of ASTBuilder.Source2.
Source2Directive(d) ==
  /\ Receives("Source2")
  /\ expander' = Source2On(Received(expander, d))
  /\ UNCHANGED <<expandOtherVars, cancelled>>

\* ledger.Builder.AddTransaction; a ledger transaction carries no add-on.
LedgerAddTransaction(t) ==
  /\ Receives("Builder.AddTransaction")
  /\ t.kind = "Transaction"
  /\ t.AddOns = << >>
  /\ expander' = AddTransactionOn(Received(expander, t))
  /\ UNCHANGED <<expandOtherVars, cancelled>>

\* The context of a Processor pipeline is cancelled: next reports false.
ExpandCancel ==
  /\ expander.stage \in {"Expander.Process", "PostingFilter.Process"}
  /\ ~cancelled
  /\ cancelled' = TRUE
  /\ UNCHANGED <<expandOtherVars, expander>>

NextExpand ==
  \/ \E t \in ExpandItems : ExpandTransaction(t)
  \/ \E d \in ExpandItems : ExpanderProcess(d)
  \/ \E d \in ExpandItems : PostingFilterProcess(d)
  \/ \E d \in ExpandItems : Source2Directive(d)
  \/ \E t \in ExpandItems : LedgerAddTransaction(t)
  \/ ExpandCancel

SpecExpand == InitExpand /\ [][NextExpand]_vars

\* C27: filtering postings never modifies a transaction as it was received:
\* the original keeps all its postings, and when only some postings match,
\* what is forwarded is a fresh clone that carries the matching postings.
FilteringKeepsOriginal ==
  expander.stage \in {"expandTransaction", "PostingFilter.Process", "Builder.AddTransaction"} =>
    /\ \A i \in DOMAIN expander.recv :
         LET r == expander.recv[i]
         IN  r.addr > 0 => expander.objs[r.addr] = r.val
    /\ \A k \in DOMAIN expander.out :
         LET o == expander.out[k]
         IN  \A i \in DOMAIN expander.recv :
               LET r == expander.recv[i]
               IN  (o.addr > 0 /\ o.addr = r.addr)
                     => FilterPostings(expander.Filter, r.val.Postings, 1) = r.val.Postings

\* C28: a transaction with an add-on of an unrecognized kind makes the
\* expanding stage report an ordinary error; the stage never panics.
UnknownAddOnIsAnError ==
  expander.stage \in {"expandTransaction", "Expander.Process", "Source2"} =>
    expander.pc # "panicked"

\* What the expander is to forward for directive d.
Expansion(d) ==
  IF d.kind = "Transaction" /\ \E i \in DOMAIN d.AddOns : d.AddOns[i] = "Accrual"
    THEN [i \in 1..2 |-> [Date |-> ExpandAccrual(d)[i].Date, val |-> ExpandAccrual(d)[i]]]
    ELSE <<[Date |-> d.Date, val |-> d]>>

RECURSIVE Expansions(_, _)
Expansions(recv, i) ==
  IF i > Len(recv) THEN << >> ELSE Expansion(recv[i].val) \o Expansions(recv, i + 1)

\* C29: the expander forwards every transaction without an accrual add-on
\* and every other directive exactly once and unchanged, and replaces a
\* transaction with an accrual add-on by the transactions of its expansion,
\* each under its own date, without forwarding the original.
ExpanderForwards ==
  (expander.stage = "Expander.Process" /\ ~cancelled) =>
    /\ [k \in DOMAIN expander.out |->
          [Date |-> expander.out[k].Date, val |-> expander.out[k].val]]
         = Expansions(expander.recv, 1)
    /\ \A k \in DOMAIN expander.out :
         LET o == expander.out[k]
         IN  o.addr > 0 => expander.objs[o.addr] = o.val

(***************************************************************************)
(* The end of balance.Builder.Build: the balances collected by the         *)
(* Snapshotter are diffed if Diff is set, and cut to the last Last ones.   *)
(***************************************************************************)
\* The values of Builder.Last: not positive, within the number of balances,
\* and beyond it.
LastOptions == (0 - 1)..(MaxSnapshots + 1)

\* Variant: the first n balances are kept.
TruncateHead(result, n) ==
  IF n > 0 /\ n < Len(result) THEN SubSeq(result, 1, n) ELSE result

\* if b.Last > 0 && b.Last < len(result) { result = result[len(result)-b.Last:] }
Truncate(result, n) ==
  IF n > 0 /\ n < Len(result)
    THEN SubSeq(result, Len(result) - n + 1, Len(result))
    ELSE result

InitLast ==
  /\ bal = New
  /\ ret = [op |-> "New", recv |-> 1, arg |-> Nil, err |-> Nil, out |-> << >>]
  /\ nops = 0
  /\ closed = {}
  /\ filter = [Accounts |-> Account, Commodities |-> Commodity]
  /\ received = << >>
  /\ steps = EmptyMap
  /\ phase = "adding"
  /\ days = << >>
  /\ trace = << >>
  /\ ast = EmptyMap
  /\ emitted = << >>
  /\ variant = "ProcessStream"
  /\ Diff \in BOOLEAN
  /\ cancelled = FALSE
  /\ source = [pc |-> "push", i |-> 1]
  /\ valuator = [pc |-> "pop", day |-> NoDay, values |-> 0]
  /\ differ = [pc |-> "pop", day |-> NoDay, res |-> NoDay, prev |-> 0]
  /\ chans = [vRes |-> << >>, dRes |-> << >>]
  /\ closedCh = {}
  /\ hist = [vIn |-> << >>, dIn |-> << >>, out |-> << >>, errs |-> << >>]
  /\ ValuatorIdle
  /\ StageIdle
  /\ LoaderIdle
  /\ RunnerIdle
  /\ ExpanderIdle
  /\ TextIdle
  /\ \E n \in LastOptions : builder = [pc |-> "processed", Last |-> n, result |-> << >>]
  /\ \E ts \in TransactionSeqs(MaxSnapshots) :
       LET m == Accumulate(<<EmptyMap, EmptyMap, Account>>,
                           <<[Amounts |-> 1, Values |-> 2, Accounts |-> 3]>>,
                           << >>, ts, 1)
       IN  /\ heap = m.heap
           /\ objs = m.objs
           /\ snapshots = m.snapshots
           /\ ghost = [origin |-> [p \in DOMAIN m.objs |-> IF p = 1 THEN 0 ELSE 1],
                       fresh |-> {}, orig |-> << >>]

\* Build after its loops: Diffs if b.Diff, whose fault on an empty slice ends
\* Build without a return, then the truncation and the return.
BuildReturns ==
  /\ builder.pc = "processed"
  /\ LET r == IF Diff THEN Diffs(heap, objs, snapshots)
              ELSE [heap |-> heap, out |-> snapshots, err |-> Nil]
     IN  /\ heap' = r.heap
         /\ builder' = IF r.err # Nil
                         THEN [builder EXCEPT !.pc = "faulted"]
                         ELSE [builder EXCEPT !.pc = "returned",
                                              !.result = Truncate(r.out, builder.Last)]
  /\ ghost' = [ghost EXCEPT
                 !.orig = [i \in 1..Len(snapshots) |-> Deref(heap, objs[snapshots[i]])]]
  /\ UNCHANGED <<balVars, ledgerVars, sorterVars, streamVars, objs, snapshots, valVars,
                 stage, loader, runner, expander, textVars>>

NextLast == BuildReturns

SpecLast == InitLast /\ [][NextLast]_vars

\* The number of balances Build is to return out of total.
Kept(n, total) == IF n > 0 /\ n < total THEN n ELSE total

\* C30: with Last = n > 0 Build returns the final min(n, total) balances in
\* their order, with Last <= 0 all of them; with Diff the total is the
\* diffed sequence, each balance of which is the difference of a snapshot to
\* its predecessor, and without Diff the balances are the snapshots.
LastKeepsFinalBalances ==
  builder.pc = "returned" =>
    LET o == ghost.orig
        first == IF Diff THEN 2 ELSE 1
        total == Len(o) - first + 1
        k == Kept(builder.Last, total)
        res == builder.result
    IN  /\ Len(res) = k
        /\ \A i \in 1..k :
             LET j == Len(o) - k + i
                 b == Deref(heap, objs[res[i]])
             IN  /\ res[i] = snapshots[j]
                 /\ IF Diff
                      THEN /\ IsDifference(b.Amounts, o[j].Amounts, o[j - 1].Amounts)
                           /\ IsDifference(b.Values, o[j].Values, o[j - 1].Values)
                      ELSE b = o[j]

\* Build with Diff and Last = 1 on three snapshots that differ from one
\* another has returned one balance, the difference of the last two.
LastKeepsFinalBalancesWitness ==
  /\ builder.pc = "returned"
  /\ Diff
  /\ builder.Last = 1
  /\ Len(snapshots) = 3
  /\ Len(builder.result) = 1
  /\ ghost.orig[1] # ghost.orig[2]
  /\ ghost.orig[2] # ghost.orig[3]
  /\ Deref(heap, objs[builder.result[1]]) # ghost.orig[3]


\* C39: Build with Diff on a single snapshot returns no balance; on no
\* snapshot Diffs faults and Build does not return, while Build without Diff
\* returns the empty result; Build faults in no other case.
DiffsNeedsABalance ==
  builder.pc # "processed" =>
    /\ builder.pc = "faulted" <=> (Diff /\ snapshots = << >>)
    /\ (Diff /\ Len(snapshots) = 1) =>
         builder.pc = "returned" /\ builder.result = << >>
    /\ (~Diff /\ snapshots = << >>) =>
         builder.pc = "returned" /\ builder.result = << >>

\* Build with Diff has faulted: no snapshot was taken.
DiffsNeedsABalanceWitness ==
  /\ builder.pc = "faulted"
  /\ Diff
  /\ snapshots = << >>
  /\ builder.result = << >>

(***************************************************************************)
(* Printer and parser: a journal text is a sequence of lines, a line is    *)
(* what the lexer sees of it (keyword and fields; padding is white space). *)
(* The text is parsed, every directive is printed with PrintDirective and  *)
(* a newline, and the printed text is parsed again.                        *)
(***************************************************************************)
MaxPrinted == 2

BlankLine == [k |-> "blank"]

OpenLine(d, a) == [k |-> "open", date |-> d, account |-> a]

CloseLine(d, a) == [k |-> "close", date |-> d, account |-> a]

PriceLine(d, c, p, tgt) ==
  [k |-> "price", date |-> d, commodity |-> c, price |-> p, target |-> tgt]

BalanceLine(d, a, amt, c) ==
  [k |-> "balance", date |-> d, account |-> a, amount |-> amt, commodity |-> c]

ValueLine(d, a, amt, c) ==
  [k |-> "value", date |-> d, account |-> a, amount |-> amt, commodity |-> c]

PerformanceLine(targets) == [k |-> "performance", targets |-> targets]

HeaderLine(d, desc) == [k |-> "transaction", date |-> d, description |-> desc]

\* credit, debit, amount and commodity, with the white space after the two
\* accounts and before the amount.
PostingLine(cr, dr, amt, c, padcr, paddr, lead) ==
  [k |-> "posting", credit |-> cr, debit |-> dr, amount |-> amt, commodity |-> c,
   padcr |-> padcr, paddr |-> paddr, lead |-> lead]

\* posting.Builder{Credit, Debit, Commodity, Quantity}.Build(): the two
\* sides of one movement, the credit side first.
PostingBuild(cr, dr, amt, c) ==
  <<[Account |-> cr, Other |-> dr, Amount |-> 0 - amt, Commodity |-> c],
    [Account |-> dr, Other |-> cr, Amount |-> amt, Commodity |-> c]>>

RECURSIVE ParsePostings(_, _)
\* The posting lines from line i on: the postings and the next line.
ParsePostings(lines, i) ==
  IF i > Len(lines) \/ lines[i].k # "posting" THEN [postings |-> << >>, next |-> i]
  ELSE LET l == lines[i]
           rest == ParsePostings(lines, i + 1)
       IN  [postings |-> PostingBuild(l.credit, l.debit, l.amount, l.commodity)
                           \o rest.postings,
            next |-> rest.next]

RECURSIVE ParseFrom(_, _, _)
\* Parse from line i on with the targets of a preceding @performance line:
\* the directives in file order, or the first syntax error.
ParseFrom(lines, i, targets) ==
  IF i > Len(lines) THEN [ds |-> << >>, err |-> Nil]
  ELSE LET l == lines[i]
           Then(d, j) ==
             LET rest == ParseFrom(lines, j, << >>)
             IN  [ds |-> <<d>> \o rest.ds, err |-> rest.err]
       IN  CASE l.k = "blank" -> ParseFrom(lines, i + 1, targets)
             [] l.k = "open" ->
                  Then([kind |-> "Open", Date |-> l.date, Account |-> l.account], i + 1)
             [] l.k = "close" ->
                  Then([kind |-> "Close", Date |-> l.date, Account |-> l.account], i + 1)
             [] l.k = "price" ->
                  Then([kind |-> "Price", Date |-> l.date, Commodity |-> l.commodity,
                        Price |-> l.price, Target |-> l.target], i + 1)
             [] l.k = "balance" ->
                  Then([kind |-> "Assertion", Date |-> l.date, Account |-> l.account,
                        Amount |-> l.amount, Commodity |-> l.commodity], i + 1)
             [] l.k = "value" ->
                  Then([kind |-> "Value", Date |-> l.date, Account |-> l.account,
                        Amount |-> l.amount, Commodity |-> l.commodity], i + 1)
             [] l.k = "performance" -> ParseFrom(lines, i + 1, l.targets)
             [] l.k = "transaction" ->
                  LET ps == ParsePostings(lines, i + 1)
                  IN  Then([kind |-> "Transaction", Date |-> l.date,
                            Description |-> l.description, Targets |-> targets,
                            Postings |-> ps.postings], ps.next)
             [] OTHER -> [ds |-> << >>, err |-> "syntax error"]

Parse(lines) == ParseFrom(lines, 1, << >>)

\* Printer.rightPad: the number of blanks after account a.
RightPad(padding, a) == IF Len(a) < padding THEN padding - Len(a) ELSE 0

\* leftPad(10, amount): the number of blanks before an amount of one digit.
LeftPad(amt) == IF amt < 0 THEN 8 ELSE 9

\* Printer.printPosting: Other, Account, Amount, Commodity.
printPosting(padding, po) ==
  PostingLine(po.Other, po.Account, po.Amount, po.Commodity,
              RightPad(padding, po.Other), RightPad(padding, po.Account),
              LeftPad(po.Amount))

RECURSIVE printPostings(_, _, _)
\* The loop of printTransaction over t.Postings from the i-th posting on,
\* which skips the postings with an even index, counted from 0.
printPostings(padding, postings, i) ==
  IF i > Len(postings) THEN << >>
  ELSE IF (i - 1) % 2 = 0 THEN printPostings(padding, postings, i + 1)
  ELSE <<printPosting(padding, postings[i])>> \o printPostings(padding, postings, i + 1)

\* Printer.printTransaction
printTransaction(padding, t) ==
  (IF t.Targets # << >> THEN <<PerformanceLine(t.Targets)>> ELSE << >>)
    \o <<HeaderLine(t.Date, t.Description)>>
    \o printPostings(padding, t.Postings, 1)

\* Printer.PrintDirective, and the newline that writeLn adds on success: it
\* ends the line of a directive and leaves a blank line after a
\* transaction.  A directive of any other kind is an error.
PrintDirective(padding, d) ==
  LET Written(lines) == [lines |-> lines, err |-> Nil]
  IN  CASE d.kind = "Transaction" -> Written(printTransaction(padding, d) \o <<BlankLine>>)
        [] d.kind = "Open" -> Written(<<OpenLine(d.Date, d.Account)>>)
        [] d.kind = "Close" -> Written(<<CloseLine(d.Date, d.Account)>>)
        [] d.kind = "Assertion" ->
             Written(<<BalanceLine(d.Date, d.Account, d.Amount, d.Commodity)>>)
        [] d.kind = "Price" ->
             Written(<<PriceLine(d.Date, d.Commodity, d.Price, d.Target)>>)
        [] OTHER -> [lines |-> << >>, err |-> "unknown directive"]

RECURSIVE Padding(_, _)
\* Printer.Initialize: the longest account name of the postings of ds[i..].
Padding(ds, i) ==
  IF i > Len(ds) THEN 0
  ELSE LET rest == Padding(ds, i + 1)
           ps == IF ds[i].kind = "Transaction" THEN ds[i].Postings ELSE << >>
           own == IF ps = << >> THEN 0
                  ELSE CHOOSE n \in {Len(ps[j].Account) : j \in DOMAIN ps} :
                         \A j \in DOMAIN ps : Len(ps[j].Account) <= n
       IN  IF own > rest THEN own ELSE rest

\* What a journal file holds for one directive.
DirectiveTexts ==
  {<<OpenLine(1, Cash)>>, <<CloseLine(2, Cash)>>, <<PriceLine(1, "CHF", 2, "USD")>>,
   <<BalanceLine(2, Cash, 1, "USD")>>, <<ValueLine(2, Cash, 1, "CHF")>>,
   <<HeaderLine(1, "groceries"), PostingLine(Cash, Food, 1, "USD", 1, 1, 1)>>,
   <<HeaderLine(2, "salary"), PostingLine(Capital, Cash, 2, "CHF", 1, 4, 2),
     PostingLine(Cash, Food, 1, "CHF", 1, 1, 1), BlankLine>>,
   <<PerformanceLine(<<"USD">>), HeaderLine(1, "shares"),
     PostingLine(Cash, Capital, 1, "CHF", 1, 1, 1), BlankLine>>}

\* The journal texts of at most n directives.
RECURSIVE JournalTexts(_)
JournalTexts(n) ==
  IF n = 0 THEN {<< >>}
  ELSE LET shorter == JournalTexts(n - 1)
       IN  shorter \cup {dt \o t : dt \in DirectiveTexts, t \in shorter}

InitPrint ==
  /\ OthersIdle
  /\ StageIdle
  /\ LoaderIdle
  /\ RunnerIdle
  /\ ExpanderIdle
  /\ BuilderIdle
  /\ cancelled = FALSE
  /\ parser = [pc |-> "none"]
  /\ diffing = [pc |-> "none"]
  /\ \E text \in JournalTexts(MaxPrinted) :
       printer = [pc |-> "parse", text |-> text, parsed |-> << >>, padding |-> 0,
                  i |-> 1, printed |-> << >>, again |-> << >>, err |-> Nil]

printOtherVars ==
  <<balVars, ledgerVars, sorterVars, streamVars, heapVars, valVars, stage, loader, runner,
    expander, builder, parser, diffing>>

\* Parse(text), then Printer.Initialize on the directives.
PrintParse ==
  /\ printer.pc = "parse"
  /\ LET r == Parse(printer.text)
     IN  printer' = [printer EXCEPT !.pc = IF r.err # Nil THEN "failed" ELSE "print",
                                    !.parsed = r.ds, !.err = r.err,
                                    !.padding = Padding(r.ds, 1)]
  /\ UNCHANGED printOtherVars

\* writeLn: PrintDirective on the next directive, then a newline; an error
\* of PrintDirective is returned.
PrintWriteLn ==
  /\ printer.pc = "print"
  /\ printer.i <= Len(printer.parsed)
  /\ LET r == PrintDirective(printer.padding, printer.parsed[printer.i])
     IN  printer' = IF r.err # Nil
                      THEN [printer EXCEPT !.pc = "unprinted", !.err = r.err]
                      ELSE [printer EXCEPT !.printed = @ \o r.lines, !.i = @ + 1]
  /\ UNCHANGED printOtherVars

\* The printed text is parsed.
PrintParseAgain ==
  /\ printer.pc = "print"
  /\ printer.i > Len(printer.parsed)
  /\ LET r == Parse(printer.printed)
     IN  printer' = [printer EXCEPT !.pc = "done", !.again = r.ds, !.err = r.err]
  /\ UNCHANGED printOtherVars

NextPrint ==
  \/ PrintParse
  \/ PrintWriteLn
  \/ PrintParseAgain

SpecPrint == InitPrint /\ [][NextPrint]_vars

\* C31: for every directive kind the parser can produce, the directives of
\* a parsed journal are printed, and parsing the printed text gives the same
\* directives: the same kinds, dates, accounts, commodities and amounts in
\* the same order, and every posting of every transaction.
PrintRoundTrip ==
  /\ printer.pc # "unprinted"
  /\ printer.pc = "done" =>
       /\ printer.err = Nil
       /\ printer.again = printer.parsed

(***************************************************************************)
(* parseCommodity as exercised by TestParseCommodity: a parser on a text,  *)
(* a sequence of characters, with the offset of its current character.     *)
(***************************************************************************)
MaxText == 3

\* The characters a commodity may consist of, as far as the texts use them.
CommodityChars == {"f", "o", "b", "a", "r", "1"}

\* The characters the generated texts are made of.
TextChars == {"f", "1", "(", " "}

\* The texts of the test table.
TestTexts ==
  {<<"f", "o", "o", "b", "a", "r">>, << >>, <<"(", "f", "o", "o", "b", "a", "r", ")">>}

\* The texts of at most n characters.
RECURSIVE Texts(_)
Texts(n) ==
  IF n = 0 THEN {<< >>}
  ELSE LET shorter == Texts(n - 1)
       IN  shorter \cup {Append(t, c) : t \in {x \in shorter : Len(x) = n - 1},
                                         c \in TextChars}

\* The want column of the test table for the given text.
TestWant(text) ==
  IF text = <<"f", "o", "o", "b", "a", "r">>
    THEN [want |-> [Start |-> 0, End |-> 6], wantErr |-> FALSE]
    ELSE [want |-> [Start |-> 0, End |-> 0], wantErr |-> TRUE]

RECURSIVE RunEnd(_, _)
\* The offset after the run of commodity characters that starts at offset.
RunEnd(text, offset) ==
  IF offset < Len(text) /\ text[offset + 1] \in CommodityChars
    THEN RunEnd(text, offset + 1)
    ELSE offset

\* Variant: a commodity is a single character.
parseCommodityOneChar(text, offset) ==
  IF offset < Len(text) /\ text[offset + 1] \in CommodityChars
    THEN [commodity |-> [Start |-> offset, End |-> offset + 1], err |-> Nil,
          offset |-> offset + 1]
    ELSE [commodity |-> [Start |-> 0, End |-> 0], err |-> "unexpected character",
          offset |-> offset]

\* Parser.parseCommodity: the run of commodity characters at the current
\* position, or an error and the zero Commodity.
parseCommodity(text, offset) ==
  LET end == RunEnd(text, offset)
  IN  IF end = offset
        THEN [commodity |-> [Start |-> 0, End |-> 0], err |-> "unexpected character",
              offset |-> offset]
        ELSE [commodity |-> [Start |-> offset, End |-> end], err |-> Nil, offset |-> end]

\* setupParser: New(text, "") and Advance, which makes the first character
\* the current one.
InitParser ==
  /\ OthersIdle
  /\ StageIdle
  /\ LoaderIdle
  /\ RunnerIdle
  /\ ExpanderIdle
  /\ BuilderIdle
  /\ cancelled = FALSE
  /\ printer = [pc |-> "none"]
  /\ diffing = [pc |-> "none"]
  /\ \E text \in Texts(MaxText) \cup TestTexts :
       parser = [pc |-> "ready", text |-> text, offset |-> 0, start |-> 0,
                 got |-> [Start |-> 0, End |-> 0], err |-> Nil]

parserOtherVars ==
  <<balVars, ledgerVars, sorterVars, streamVars, heapVars, valVars, stage, loader, runner,
    expander, builder, printer, diffing>>

\* The parser consumes the current character as part of what precedes the
\* commodity.
ParserAdvance ==
  /\ parser.pc = "ready"
  /\ parser.offset < Len(parser.text)
  /\ parser' = [parser EXCEPT !.offset = @ + 1]
  /\ UNCHANGED parserOtherVars

\* p.parseCommodity()
ParserParseCommodity ==
  /\ parser.pc = "ready"
  /\ LET r == parseCommodity(parser.text, parser.offset)
     IN  parser' = [parser EXCEPT !.pc = "parsed", !.start = parser.offset,
                                  !.offset = r.offset, !.got = r.commodity, !.err = r.err]
  /\ UNCHANGED parserOtherVars

NextParser ==
  \/ ParserAdvance
  \/ ParserParseCommodity

SpecParser == InitParser /\ [][NextParser]_vars

\* C32: parseCommodity succeeds iff the text at the current position starts
\* with a commodity character; it then returns the range from the start
\* offset to the end of the run of commodity characters, and otherwise an
\* error with the zero Commodity.  The rows of the test table hold.
ParseCommodityRange ==
  parser.pc = "parsed" =>
    LET text == parser.text
        start == parser.start
        starts == start < Len(text) /\ text[start + 1] \in CommodityChars
    IN  /\ parser.err = Nil <=> starts
        /\ starts =>
             /\ parser.got.Start = start
             /\ parser.got.End > start
             /\ parser.got.End <= Len(text)
             /\ \A i \in (start + 1)..parser.got.End : text[i] \in CommodityChars
             /\ parser.got.End < Len(text) => text[parser.got.End + 1] \notin CommodityChars
        /\ ~starts => parser.got = [Start |-> 0, End |-> 0]
        /\ (start = 0 /\ text \in TestTexts) =>
             /\ parser.got = TestWant(text).want
             /\ (parser.err # Nil) = TestWant(text).wantErr

\* After the opening parenthesis of "(foobar)" was consumed, parseCommodity
\* returned the commodity that ends before the closing parenthesis.
ParseCommodityRangeWitness ==
  /\ parser.pc = "parsed"
  /\ parser.err = Nil
  /\ parser.got = [Start |-> 1, End |-> 7]
  /\ Len(parser.text) = 8

(***************************************************************************)
(* Differ.ProcessStream and Differ.Process2 on days whose Values are maps  *)
(* on the heap: the days the Valuator pushes carry one map each.           *)
(***************************************************************************)
MaxDiffDays == 3

DiffVariants == {"ProcessStream", "Process2"}

DiffKeys == {CommodityAccount(Cash, "CHF"), CommodityAccount(Food, "CHF")}

\* The cumulative values a day may carry.
ValuesMaps == UNION {[ks -> 0..1] : ks \in SUBSET DiffKeys}

\* The days of the input channel: day i carries the map at address i.
DiffInputs == UNION {[1..n -> ValuesMaps] : n \in 1..MaxDiffDays}

\* Minus on the map at addr: it subtracts, in place, at every key of the
\* map at o; a nil map has no keys.
AmountsMinus(h, addr, o) ==
  IF o = 0 THEN h ELSE [h EXCEPT ![addr] = MinusMap(h[addr], h[o])]

\* Variant: d.Values.Minus(prev), without Clone.
DifferValuesInPlace(h, addr, prev) == [heap |-> AmountsMinus(h, addr, prev), addr |-> addr]

\* d.Values.Clone().Minus(prev): the heap and the address of the difference.
DifferValues(h, addr, prev) ==
  LET c == AmountsClone(h, addr)
  IN  [heap |-> AmountsMinus(c.heap, c.addr, prev), addr |-> c.addr]

InitDiffer ==
  /\ OthersIdle
  /\ StageIdle
  /\ LoaderIdle
  /\ RunnerIdle
  /\ ExpanderIdle
  /\ BuilderIdle
  /\ cancelled = FALSE
  /\ printer = [pc |-> "none"]
  /\ parser = [pc |-> "none"]
  /\ \E v \in DiffVariants : \E in \in DiffInputs :
       diffing = [pc |-> "pop", variant |-> v, heap |-> in, orig |-> in,
                  days |-> [j \in 1..Len(in) |-> [Date |-> j, Values |-> j]],
                  n |-> 0, prev |-> 0, res |-> 0, out |-> << >>]

differOtherVars ==
  <<balVars, ledgerVars, sorterVars, variant, Diff, source, valuator, differ, chans,
    closedCh, hist, heapVars, valVars, stage, loader, runner, expander, builder,
    printer, parser>>

\* cpr.Pop returns a day: the difference is computed; Process2 puts it into
\* the day it received, after it has remembered the day's map as prev.
DiffPop ==
  /\ diffing.pc = "pop"
  /\ diffing.n < Len(diffing.days)
  /\ LET j == diffing.n + 1
         d == diffing.days[j]
         r == DifferValues(diffing.heap, d.Values, diffing.prev)
     IN  diffing' =
           IF diffing.variant = "ProcessStream"
             THEN [diffing EXCEPT !.pc = "push", !.n = j, !.heap = r.heap,
                                  !.res = [Date |-> d.Date, Values |-> r.addr]]
             ELSE [diffing EXCEPT !.pc = "push", !.n = j, !.heap = r.heap,
                                  !.prev = d.Values,
                                  !.days[j].Values = r.addr,
                                  !.res = [Date |-> d.Date, Values |-> r.addr]]
  /\ UNCHANGED <<cancelled, differOtherVars>>

\* cpr.Push sends the result; ProcessStream remembers the day's map as prev.
DiffPush ==
  /\ diffing.pc = "push"
  /\ diffing' =
       IF diffing.variant = "ProcessStream"
         THEN [diffing EXCEPT !.pc = "pop", !.out = Append(@, diffing.res),
                              !.prev = diffing.days[diffing.n].Values]
         ELSE [diffing EXCEPT !.pc = "pop", !.out = Append(@, diffing.res)]
  /\ UNCHANGED <<cancelled, differOtherVars>>

\* cpr.Pop finds the input closed, or cpr.Pop or cpr.Push the context done.
DiffReturn ==
  /\ diffing.pc \in {"pop", "push"}
  /\ diffing.pc = "pop" => diffing.n = Len(diffing.days) \/ cancelled
  /\ diffing.pc = "push" => cancelled
  /\ diffing' = [diffing EXCEPT !.pc = "done"]
  /\ UNCHANGED <<cancelled, differOtherVars>>

DiffCancel ==
  /\ ~cancelled
  /\ diffing.pc # "done"
  /\ cancelled' = TRUE
  /\ UNCHANGED <<diffing, differOtherVars>>

NextDiffer ==
  \/ DiffPop
  \/ DiffPush
  \/ DiffReturn
  \/ DiffCancel

SpecDiffer == InitDiffer /\ [][NextDiffer]_vars

\* C34: each Values map the differ has emitted holds, at every key of the
\* previous input day's map, the current input day's value minus the previous
\* input day's value, both as they were received; Differ.ProcessStream leaves
\* the input days and their Values maps as they were.
DifferSubtractsPrevious ==
  /\ \A j \in 1..Len(diffing.out) :
       /\ diffing.out[j].Date = j
       /\ j > 1 =>
            \A k \in DOMAIN diffing.orig[j - 1] :
              Get(diffing.heap[diffing.out[j].Values], k) =
                Get(diffing.orig[j], k) - diffing.orig[j - 1][k]
  /\ diffing.variant = "ProcessStream" =>
       \A j \in 1..Len(diffing.days) :
         /\ diffing.days[j].Values = j
         /\ diffing.heap[j] = diffing.orig[j]

\* Differ.ProcessStream has emitted three days; the second and the third
\* differ from their predecessors at a key, the third lacks a key of the second.
DifferSubtractsPreviousWitness ==
  /\ diffing.variant = "ProcessStream"
  /\ Len(diffing.out) = 3
  /\ LET k == CommodityAccount(Cash, "CHF")
         f == CommodityAccount(Food, "CHF")
     IN  /\ k \in DOMAIN diffing.orig[1] /\ diffing.orig[1][k] = 1
         /\ k \in DOMAIN diffing.orig[2] /\ diffing.orig[2][k] = 1
         /\ f \in DOMAIN diffing.orig[2] /\ diffing.orig[2][f] = 1
         /\ diffing.orig[3] = EmptyMap
         /\ diffing.heap[diffing.out[2].Values][k] = 0
         /\ diffing.heap[diffing.out[3].Values][f] = -1

====
